---- MODULE Spec2Model ----
(***************************************************************************)
(* Monthly hours analysis script (optimized variant, src/unnamed/part_000) *)
(* The model follows calculateAvailableHours and createHoursDaysTable step *)
(* by step.  Strings are sequences of one-character strings, so that       *)
(* split / trim / parseInt / regular-expression matching are computed the  *)
(* way the script computes them.  Numbers are integers in units of 1/Scale *)
(* (0.0001).                                                               *)
(***************************************************************************)
EXTENDS Integers, Sequences, FiniteSets, TLC

\* ------------------------------------------------------------------------
\* Bounds of the model
\* ------------------------------------------------------------------------
\* number of booking rows (below the header row) on the [MMYY]e_2 tab
MaxRows == 2
\* number of populated rows at the top of ClubInfo!A9:B25
MaxRowsA == 2

\* ------------------------------------------------------------------------
\* Number representation
\* ------------------------------------------------------------------------
\* one unit of the model is 1/Scale: a number x of the script is x * Scale
Scale == 10000
\* the 0.01 tolerance of the reconciliation, in units of 1/Scale
Tolerance == 100
\* value of parseInt when no digits are found
NaN == -999999

\* ------------------------------------------------------------------------
\* Characters and strings
\* ------------------------------------------------------------------------
Digits == <<"0", "1", "2", "3", "4", "5", "6", "7", "8", "9">>

IsDigit(c) == \E i \in 1..10 : Digits[i] = c

DigitVal(c) == (CHOOSE i \in 1..10 : Digits[i] = c) - 1

IsSpace(c) == c = " "

Uppers == <<"A", "B", "C", "D", "E", "F", "G", "H", "I", "J", "K", "L", "M",
            "N", "O", "P", "Q", "R", "S", "T", "U", "V", "W", "X", "Y", "Z">>

Lowers == <<"a", "b", "c", "d", "e", "f", "g", "h", "i", "j", "k", "l", "m",
            "n", "o", "p", "q", "r", "s", "t", "u", "v", "w", "x", "y", "z">>

\* String.prototype.toUpperCase on one character
UpperChar(c) ==
    IF \E i \in 1..26 : Lowers[i] = c
    THEN Uppers[CHOOSE i \in 1..26 : Lowers[i] = c]
    ELSE c

\* String.prototype.toLowerCase on one character
LowerChar(c) ==
    IF \E i \in 1..26 : Uppers[i] = c
    THEN Lowers[CHOOSE i \in 1..26 : Uppers[i] = c]
    ELSE c

\* String.prototype.toLowerCase
ToLowerCase(s) == [i \in 1..Len(s) |-> LowerChar(s[i])]

RECURSIVE TrimLeft(_)
TrimLeft(s) ==
    IF Len(s) > 0 /\ IsSpace(Head(s)) THEN TrimLeft(Tail(s)) ELSE s

RECURSIVE TrimRight(_)
TrimRight(s) ==
    IF Len(s) > 0 /\ IsSpace(s[Len(s)])
    THEN TrimRight(SubSeq(s, 1, Len(s) - 1))
    ELSE s

\* String.prototype.trim
Trim(s) == TrimRight(TrimLeft(s))

\* position of the first occurrence of character c in s, 0 when absent
FirstPos(s, c) ==
    IF \E i \in 1..Len(s) : s[i] = c
    THEN CHOOSE i \in 1..Len(s) : s[i] = c /\ \A j \in 1..(i - 1) : s[j] # c
    ELSE 0

\* String.prototype.split on a one-character separator
RECURSIVE Split(_, _)
Split(s, c) ==
    LET p == FirstPos(s, c)
    IN  IF p = 0 THEN <<s>>
        ELSE <<SubSeq(s, 1, p - 1)>> \o Split(SubSeq(s, p + 1, Len(s)), c)

\* String.prototype.indexOf(sub) >= 0
Contains(s, sub) ==
    \E i \in 1..(Len(s) - Len(sub) + 1) : SubSeq(s, i, i + Len(sub) - 1) = sub

\* value of the longest prefix of decimal digits of s, given the value so far
RECURSIVE DigitsValue(_, _)
DigitsValue(s, acc) ==
    IF Len(s) > 0 /\ IsDigit(Head(s))
    THEN DigitsValue(Tail(s), acc * 10 + DigitVal(Head(s)))
    ELSE acc

\* parseInt(s): leading white space, an optional sign, then decimal digits
ParseInt(s) ==
    LET t == TrimLeft(s)
        neg == Len(t) > 0 /\ Head(t) = "-"
        u == IF Len(t) > 0 /\ Head(t) \in {"-", "+"} THEN Tail(t) ELSE t
    IN  IF Len(u) > 0 /\ IsDigit(Head(u))
        THEN (IF neg THEN 0 - DigitsValue(u, 0) ELSE DigitsValue(u, 0))
        ELSE NaN

IsNaN(n) == n = NaN

\* decimal digits of a natural number
RECURSIVE NatToStr(_)
NatToStr(n) ==
    IF n < 10 THEN <<Digits[n + 1]>>
    ELSE NatToStr(n \div 10) \o <<Digits[(n % 10) + 1]>>

\* fractional digits of f/Scale without trailing zeros (f in 1..Scale-1)
RECURSIVE FracToStr(_, _)
FracToStr(f, unit) ==
    IF f = 0 THEN <<>>
    ELSE <<Digits[(f \div unit) + 1]>> \o FracToStr(f % unit, unit \div 10)

\* Number.prototype.toString of the number n/Scale
NumToStr(n) ==
    LET a == IF n < 0 THEN 0 - n ELSE n
        body == IF a % Scale = 0 THEN NatToStr(a \div Scale)
                ELSE NatToStr(a \div Scale) \o <<".">> \o FracToStr(a % Scale, Scale \div 10)
    IN  IF n < 0 THEN <<"-">> \o body ELSE body

\* F(v) with v computed once: an assignment  var x = v  followed by code
\* that reads x. (TLC computes a LET definition or an argument again at each
\* use when it evaluates ENABLED, which the fairness condition asks for.)
Bind(v, F(_)) == CHOOSE result \in {F(x) : x \in {v}} : TRUE

\* ------------------------------------------------------------------------
\* Cell values of the spreadsheet: numbers, strings ('' is the empty cell)
\* and Date objects
\* ------------------------------------------------------------------------
Num(n) == [t |-> "num", n |-> n, s |-> <<>>]

Str(s) == [t |-> "str", n |-> 0, s |-> s]

\* a Date object: year, month 1..12, day and hour packed into one integer
DateVal(y, m, d, h) == [t |-> "date", n |-> ((y * 100 + m) * 100 + d) * 100 + h, s |-> <<>>]

\* getFullYear, getMonth + 1, getDate, getHours
DateYear(v) == v.n \div 1000000

DateMonth(v) == (v.n \div 10000) % 100

DateDay(v) == (v.n \div 100) % 100

DateHour(v) == v.n % 100

Empty == Str(<<>>)

\* JavaScript truthiness of a cell value
Truthy(v) ==
    CASE v.t = "num" -> v.n # 0
      [] v.t = "str" -> Len(v.s) > 0
      [] OTHER -> TRUE

\* String(v) for numbers and strings
ToStr(v) == IF v.t = "num" THEN NumToStr(v.n) ELSE v.s

\* the + operator of JavaScript on numbers and strings
JsAdd(a, b) ==
    IF a.t = "num" /\ b.t = "num" THEN Num(a.n + b.n)
    ELSE Str(ToStr(a) \o ToStr(b))

\* ------------------------------------------------------------------------
\* Calendar (JavaScript Date with local calendar fields)
\* ------------------------------------------------------------------------
\* "Sunday" .. "Saturday", index 0..6 of the script is position 1..7 here
DayNames ==
    << <<"S", "u", "n", "d", "a", "y">>,
       <<"M", "o", "n", "d", "a", "y">>,
       <<"T", "u", "e", "s", "d", "a", "y">>,
       <<"W", "e", "d", "n", "e", "s", "d", "a", "y">>,
       <<"T", "h", "u", "r", "s", "d", "a", "y">>,
       <<"F", "r", "i", "d", "a", "y">>,
       <<"S", "a", "t", "u", "r", "d", "a", "y">> >>

IsLeap(y) == (y % 4 = 0 /\ y % 100 # 0) \/ y % 400 = 0

\* days of month m (1..12) of year y
DaysIn(y, m) ==
    IF m = 2 THEN (IF IsLeap(y) THEN 29 ELSE 28)
    ELSE IF m \in {4, 6, 9, 11} THEN 30 ELSE 31

\* new Date(year, monthIndex, ...) accepts any month index and carries it
\* into the year
NormYear(y, mi) == y + (mi \div 12)

NormMonth(mi) == (mi % 12) + 1

\* days since 1970-01-01 of the proleptic Gregorian date y-m-d
DaysFromCivil(y, m, d) ==
    LET yy == IF m <= 2 THEN y - 1 ELSE y
        era == yy \div 400
        yoe == yy - era * 400
        mp == IF m > 2 THEN m - 3 ELSE m + 9
        doy == ((153 * mp + 2) \div 5) + d - 1
        doe == yoe * 365 + (yoe \div 4) - (yoe \div 100) + doy
    IN  era * 146097 + doe - 719468

\* Date.prototype.getDay: 0 = Sunday .. 6 = Saturday
GetDay(y, m, d) == (DaysFromCivil(y, m, d) + 4) % 7

\* new Date(year, monthNum, 0).getDate()
DaysInMonth(monthNum, year) ==
    DaysIn(NormYear(year, monthNum - 1), NormMonth(monthNum - 1))

buildDayOfWeekCache(monthNum, year) ==
    [day \in 1..DaysInMonth(monthNum, year) |->
        LET dayIndex == GetDay(NormYear(year, monthNum - 1), NormMonth(monthNum - 1), day)
        IN  [dayName |-> DayNames[dayIndex + 1], dayIndex |-> dayIndex]]

\* ------------------------------------------------------------------------
\* Time formatting and parsing
\* ------------------------------------------------------------------------
formatTimeAMPM(hour) ==
    IF hour = 0 THEN <<"1", "2", "A", "M">>
    ELSE IF hour = 24 THEN <<"M", "i", "d", "n", "i", "g", "h", "t">>
    ELSE IF hour = 12 THEN <<"1", "2", "P", "M">>
    ELSE IF hour < 12 THEN NumToStr(hour * Scale) \o <<"A", "M">>
    ELSE NumToStr((hour - 12) * Scale) \o <<"P", "M">>

\* s has the digits d1..dn at position p (n = 1 or 2)
DigitsAt(s, p, n) == p + n - 1 <= Len(s) /\ \A k \in p..(p + n - 1) : IsDigit(s[k])

\* first position at or after p that holds no white space
RECURSIVE SkipSpaces(_, _)
SkipSpaces(s, p) ==
    IF p <= Len(s) /\ IsSpace(s[p]) THEN SkipSpaces(s, p + 1) ELSE p

\* (AM|PM) at position p, ignoring case: "AM", "PM" or "" when neither
MeridiemAt(s, p) ==
    IF p + 1 <= Len(s) /\ UpperChar(s[p + 1]) = "M" /\ UpperChar(s[p]) \in {"A", "P"}
    THEN <<UpperChar(s[p]), "M">>
    ELSE <<>>

\* the rest of /(\d{1,2})(?::(\d{2}))?\s*(AM|PM)/i after n digits at p:
\* the optional minutes are tried first, then skipped
AmPmTail(s, p, n) ==
    LET q == p + n
        withMin == IF q <= Len(s) /\ s[q] = ":" /\ DigitsAt(s, q + 1, 2)
                   THEN MeridiemAt(s, SkipSpaces(s, q + 3)) ELSE <<>>
    IN  IF withMin # <<>> THEN withMin ELSE MeridiemAt(s, SkipSpaces(s, q))

\* match of the AM/PM pattern starting exactly at p: two digits are tried
\* before one
AmPmAt(s, p) ==
    IF DigitsAt(s, p, 2) /\ AmPmTail(s, p, 2) # <<>>
    THEN [ok |-> TRUE, digits |-> SubSeq(s, p, p + 1), mer |-> AmPmTail(s, p, 2)]
    ELSE IF DigitsAt(s, p, 1) /\ AmPmTail(s, p, 1) # <<>>
    THEN [ok |-> TRUE, digits |-> SubSeq(s, p, p), mer |-> AmPmTail(s, p, 1)]
    ELSE [ok |-> FALSE, digits |-> <<>>, mer |-> <<>>]

\* timeStr.match(/(\d{1,2})(?::(\d{2}))?\s*(AM|PM)/i): leftmost match
AmPmMatch(s) ==
    IF \E p \in 1..Len(s) : AmPmAt(s, p).ok
    THEN Bind(CHOOSE p \in 1..Len(s) :
                 AmPmAt(s, p).ok /\ \A q \in 1..(p - 1) : ~AmPmAt(s, q).ok,
              LAMBDA first : AmPmAt(s, first))
    ELSE [ok |-> FALSE, digits |-> <<>>, mer |-> <<>>]

\* match of /(\d{1,2}):/ starting exactly at p
HourColonAt(s, p) ==
    IF DigitsAt(s, p, 2) /\ p + 2 <= Len(s) /\ s[p + 2] = ":"
    THEN [ok |-> TRUE, digits |-> SubSeq(s, p, p + 1)]
    ELSE IF DigitsAt(s, p, 1) /\ p + 1 <= Len(s) /\ s[p + 1] = ":"
    THEN [ok |-> TRUE, digits |-> SubSeq(s, p, p)]
    ELSE [ok |-> FALSE, digits |-> <<>>]

\* timeStr.match(/(\d{1,2}):/): leftmost match
HourColonMatch(s) ==
    IF \E p \in 1..Len(s) : HourColonAt(s, p).ok
    THEN Bind(CHOOSE p \in 1..Len(s) :
                 HourColonAt(s, p).ok /\ \A q \in 1..(p - 1) : ~HourColonAt(s, q).ok,
              LAMBDA first : HourColonAt(s, first))
    ELSE [ok |-> FALSE, digits |-> <<>>]

\* the string branch with 12 added for every PM hour, 12 PM included
ParseHourFromStringNoon(str) ==
    Bind(Trim(str), LAMBDA timeStr :
    Bind(AmPmMatch(timeStr), LAMBDA ampm :
        LET hm == HourColonMatch(timeStr)
            h0 == ParseInt(ampm.digits)
            isPM == ampm.mer = <<"P", "M">>
            num == ParseInt(timeStr)
        IN  IF ampm.ok
            THEN (IF h0 = 12 /\ ~isPM THEN 0
                  ELSE IF isPM THEN h0 + 12
                  ELSE h0)
            ELSE IF hm.ok THEN ParseInt(hm.digits)
            ELSE IF ~IsNaN(num) THEN num
            ELSE 0))

\* the string branch of parseHourFromTime
ParseHourFromString(str) ==
    Bind(Trim(str), LAMBDA timeStr :
    Bind(AmPmMatch(timeStr), LAMBDA ampm :
        LET hm == HourColonMatch(timeStr)
            h0 == ParseInt(ampm.digits)
            isPM == ampm.mer = <<"P", "M">>
            num == ParseInt(timeStr)
        IN  IF ampm.ok
            THEN (IF h0 = 12 /\ ~isPM THEN 0
                  ELSE IF h0 # 12 /\ isPM THEN h0 + 12
                  ELSE h0)
            ELSE IF hm.ok THEN ParseInt(hm.digits)
            ELSE IF ~IsNaN(num) THEN num
            ELSE 0))

parseHourFromTime(timeValue) ==
    IF ~Truthy(timeValue) /\ timeValue # Num(0) THEN 0
    ELSE IF timeValue.t = "date" THEN DateHour(timeValue)
    ELSE IF timeValue.t = "num" THEN (timeValue.n * 24) \div Scale
    ELSE ParseHourFromString(timeValue.s)

\* ------------------------------------------------------------------------
\* The ClubInfo tab and the opening hours
\* ------------------------------------------------------------------------
\* number of rows of ClubInfo!A9:B25
NumRowsA == 17

\* a ClubInfo tab is a record
\*   [clubName |-> B4, capacity |-> D5,
\*    rowsA |-> the populated rows at the top of A9:B25, each [day, hours],
\*    open |-> E6:K6, close |-> E7:K7]
\* A9:B25 as getValues returns it: cells that are not populated are ''
OpeningHoursData(sheet) ==
    [i \in 1..NumRowsA |->
        IF i <= Len(sheet.rowsA) THEN sheet.rowsA[i]
        ELSE [day |-> Empty, hours |-> Empty]]

\* the object dayOpeningHours is the sequence of its entries in insertion
\* order; an entry is [key, open, close]
HasKey(doh, k) == \E i \in 1..Len(doh) : doh[i].key = k

GetEntry(doh, k) == doh[CHOOSE i \in 1..Len(doh) : doh[i].key = k]

\* dayOpeningHours[k] = {open: o, close: c}
SetEntry(doh, k, o, c) ==
    IF HasKey(doh, k)
    THEN [i \in 1..Len(doh) |->
            IF doh[i].key = k THEN [key |-> k, open |-> o, close |-> c] ELSE doh[i]]
    ELSE Append(doh, [key |-> k, open |-> o, close |-> c])

\* the parsing state of calculateAvailableHours
StartHours == [doh |-> <<>>, earliestHour |-> 24, latestHour |-> 0]

\* dayOpeningHours[k] = {open, close} followed by the two running bounds
StoreHours(acc, k, openHour, closeHour) ==
    [doh |-> SetEntry(acc.doh, k, openHour, closeHour),
     earliestHour |-> IF openHour < acc.earliestHour THEN openHour ELSE acc.earliestHour,
     latestHour |-> IF closeHour > acc.latestHour THEN closeHour ELSE acc.latestHour]

\* hasTraditionalFormat set by a row that has a day label alone
HasAnyLabel(data) ==
    \E i \in 1..Len(data) : Truthy(data[i].day)

\* the loop that sets hasTraditionalFormat
HasTraditionalFormat(data) ==
    \E i \in 1..Len(data) : Truthy(data[i].day) /\ Truthy(data[i].hours)

\* the close hour of a row of A9:B25 after the midnight rule
CloseHourA(closeTime) ==
    LET closeHour == ParseInt(Split(closeTime, ":")[1])
    IN  IF closeTime = <<"2", "4", ":", "0", "0">>
           \/ (closeHour = 0 /\ Contains(closeTime, <<"0", "0", ":", "0", "0">>))
        THEN 24
        ELSE closeHour

\* one iteration of the loop over A9:B25
ParseRowA(acc, row) ==
    IF Truthy(row.day) /\ Truthy(row.hours)
    THEN Bind(Split(ToStr(row.hours), "-"), LAMBDA parts :
            IF Len(parts) = 2
            THEN Bind(ParseInt(Split(Trim(parts[1]), ":")[1]), LAMBDA openHour :
                 Bind(CloseHourA(Trim(parts[2])), LAMBDA closeHour :
                    IF ~IsNaN(openHour) /\ ~IsNaN(closeHour)
                    THEN StoreHours(acc, ToStr(row.day), openHour, closeHour)
                    ELSE acc))
            ELSE acc)
    ELSE acc

\* the loop over A9:B25, rows i..Len(data)
RECURSIVE ParseLayoutA(_, _, _)
ParseLayoutA(acc, data, i) ==
    IF i > Len(data) THEN acc
    ELSE Bind(ParseRowA(acc, data[i]), LAMBDA next : ParseLayoutA(next, data, i + 1))

\* the close hour of a column of D5:K7 without the midnight rule
CloseHourBAsParsed(closeTime) == parseHourFromTime(closeTime)

\* the close hour of a column of D5:K7 after the midnight rule
CloseHourB(closeTime) ==
    LET closeHour == parseHourFromTime(closeTime)
    IN  IF closeHour = 0 THEN 24 ELSE closeHour

\* the loop over the seven columns of D5:K7, columns i..7
RECURSIVE ParseLayoutB(_, _, _)
ParseLayoutB(acc, sheet, i) ==
    IF i > 7 THEN acc
    ELSE Bind(StoreHours(acc, DayNames[i], parseHourFromTime(sheet.open[i]),
                         CloseHourB(sheet.close[i])),
              LAMBDA next : ParseLayoutB(next, sheet, i + 1))

\* the default hours written over all seven days, days i..7
RECURSIVE SetDefaults(_, _)
SetDefaults(doh, i) ==
    IF i > 7 THEN doh
    ELSE Bind(SetEntry(doh, DayNames[i], 8, 23), LAMBDA next : SetDefaults(next, i + 1))

\* the condition of the safety check after parsing
NeedsDefaults(acc) ==
    acc.earliestHour = 24 \/ acc.latestHour = 0 \/ Len(acc.doh) = 0

\* the safety check: defaults when no valid hours were found
ApplyDefaults(acc) ==
    IF NeedsDefaults(acc)
    THEN [doh |-> SetDefaults(acc.doh, 1), earliestHour |-> 8, latestHour |-> 23]
    ELSE acc

\* dayOpeningHours, earliestHour and latestHour as parsed from the ClubInfo
\* tab, before the safety check
ParseOpeningHours(sheet) ==
    Bind(OpeningHoursData(sheet), LAMBDA data :
        IF HasTraditionalFormat(data)
        THEN ParseLayoutA(StartHours, data, 1)
        ELSE ParseLayoutB(StartHours, sheet, 1))

\* the hour rows with the closing hour as the last row
HourRangeInclusive(earliestHour, latestHour) ==
    LET lastHourRow == IF latestHour = 24 THEN 23 ELSE latestHour
    IN  IF earliestHour > lastHourRow
        THEN [first |-> 8, last |-> 23]
        ELSE [first |-> earliestHour, last |-> lastHourRow]

\* the hour rows: [first, last] after the range safety check
HourRange(earliestHour, latestHour) ==
    LET lastHourRow == IF latestHour = 24 THEN 23 ELSE latestHour - 1
    IN  IF earliestHour > lastHourRow
        THEN [first |-> 8, last |-> 23]
        ELSE [first |-> earliestHour, last |-> lastHourRow]

\* timeRows of the loop  for (hour = first; hour < last; hour++)
TimeRowsExclusive(range) == [i \in 1..(range.last - range.first) |-> range.first + i - 1]

\* timeRows: position i holds hour first + i - 1
TimeRows(range) == [i \in 1..(range.last - range.first + 1) |-> range.first + i - 1]

\* one cell of availableGrid, with the closing hour counted as open
AvailableCellInclusive(doh, dayName, hour, maxHoursPerHour) ==
    IF HasKey(doh, dayName)
       /\ hour >= GetEntry(doh, dayName).open
       /\ hour <= GetEntry(doh, dayName).close
    THEN maxHoursPerHour
    ELSE Num(0)

\* one cell of availableGrid
AvailableCell(doh, dayName, hour, maxHoursPerHour) ==
    IF HasKey(doh, dayName)
       /\ hour >= GetEntry(doh, dayName).open
       /\ hour < GetEntry(doh, dayName).close
    THEN maxHoursPerHour
    ELSE Num(0)

\* calculateAvailableHours from the safety check on, given the parsed hours;
\* grids are indexed [hourIndex + 1][day], day = dayIndex + 1
BuildAvailability(parsed, clubInfo, monthNum, year) ==
    LET hours == ApplyDefaults(parsed)
        range == HourRange(hours.earliestHour, hours.latestHour)
        timeRows == TimeRows(range)
        daysInMonth == DaysInMonth(monthNum, year)
        dayOfWeekCache == buildDayOfWeekCache(monthNum, year)
    IN  [availableGrid |->
            [hourIndex \in 1..Len(timeRows) |->
                [day \in 1..daysInMonth |->
                    AvailableCell(hours.doh, dayOfWeekCache[day].dayName,
                                  timeRows[hourIndex], clubInfo.maxHoursPerHour)]],
         timeRows |-> timeRows,
         daysInMonth |-> daysInMonth,
         monthNum |-> monthNum,
         year |-> year,
         maxHoursPerHour |-> clubInfo.maxHoursPerHour,
         earliestHour |-> range.first,
         latestHour |-> hours.latestHour,
         dayOpeningHours |-> hours.doh,
         dayOfWeekCache |-> dayOfWeekCache]

\* calculateAvailableHours with the club info it got from getClubInfo
calculateAvailableHours(clubInfo, monthNum, year) ==
    BuildAvailability(ParseOpeningHours(clubInfo.sheet), clubInfo, monthNum, year)

\* ------------------------------------------------------------------------
\* Helpers of createHoursDaysTable
\* ------------------------------------------------------------------------
\* /^\d{4}$/.test(monthDigits)
IsFourDigits(text) == Len(text) = 4 /\ \A k \in 1..4 : IsDigit(text[k])

\* parseInt(monthDigits.substring(0, 2))
MonthOf(text) == ParseInt(SubSeq(text, 1, 2))

\* parseInt('20' + monthDigits.substring(2, 4))
YearOf(text) == ParseInt(<<"2", "0">> \o SubSeq(text, 3, 4))

\* Number(v) of a number or a string (strings of digits, '' and other text)
ToNumber(v) ==
    IF v.t = "num" THEN v.n
    ELSE IF Trim(v.s) = <<>> THEN 0
    ELSE IF \A k \in 1..Len(Trim(v.s)) : IsDigit(Trim(v.s)[k])
    THEN DigitsValue(Trim(v.s), 0) * Scale
    ELSE NaN

Abs(n) == IF n < 0 THEN 0 - n ELSE n

\* sumColumnH on the column H values of a sheet, top row included: only
\* values of type number are added; a sheet without data gives 0
RECURSIVE SumColumnH(_)
SumColumnH(colH) ==
    IF Len(colH) = 0 THEN 0
    ELSE (IF Head(colH).t = "num" THEN Head(colH).n ELSE 0) + SumColumnH(Tail(colH))

\* column H of the rows of a booking tab
ColumnH(rows) == [k \in 1..Len(rows) |-> rows[k].hours]

\* the status with the difference taken with its sign
ReconStatusNoAbs(eTotal, e2Total) ==
    IF eTotal - e2Total > Tolerance THEN "Please Check" ELSE "OK"

\* the text written to E3
ReconStatus(eTotal, e2Total) ==
    IF Abs(eTotal - e2Total) > Tolerance THEN "Please Check" ELSE "OK"

\* new Date(dateValue) read back with getDate / getMonth + 1 / getFullYear.
\* A Date cell is copied; a number is a count of milliseconds from 1970;
\* the strings of the model are text that is no date (Invalid Date).
NewDate(v) ==
    IF v.t = "date" THEN [valid |-> TRUE, y |-> DateYear(v), m |-> DateMonth(v), d |-> DateDay(v)]
    ELSE IF v.t = "num" THEN [valid |-> TRUE, y |-> 1970, m |-> 1, d |-> 1]
    ELSE [valid |-> FALSE, y |-> 0, m |-> 0, d |-> 0]

\* the start hour of a booking row (three encodings of the start time)
StartHour(startTime) ==
    IF startTime.t = "date" THEN DateHour(startTime)
    ELSE IF startTime.t = "num" THEN (startTime.n * 24) \div Scale
    ELSE parseHourFromTime(Str(ToStr(startTime)))

\* timeRows.indexOf(hour) + 1: 0 when hour is no element
IndexOf(rows, hour) ==
    Bind(hour, LAMBDA h :
        IF \E k \in 1..Len(rows) : rows[k] = h
        THEN CHOOSE k \in 1..Len(rows) : rows[k] = h
        ELSE 0)

\* the row passes the test  dateValue && startTime && hours
RowPopulated(row) == Truthy(row.date) /\ Truthy(row.start) /\ Truthy(row.hours)

\* the row passes whatever its month and year
RowInAnyMonth(row, monthNum, year) == NewDate(row.date).valid

\* the row passes the month / year test
RowInMonth(row, monthNum, year) ==
    LET bd == NewDate(row.date)
    IN  bd.valid /\ bd.m = monthNum /\ bd.y = year

\* the body of the booking loop with an hour outside timeRows moved to the
\* first or the last row
AddBookingClamped(grid, rows, daysInMonth, row, monthNum, year) ==
    IF RowPopulated(row) /\ RowInMonth(row, monthNum, year)
    THEN LET hour == StartHour(row.start)
             hourIndex == IF IndexOf(rows, hour) > 0 THEN IndexOf(rows, hour)
                          ELSE IF hour < rows[1] THEN 1 ELSE Len(rows)
             day == NewDate(row.date).d
         IN  IF day - 1 >= 0 /\ day - 1 < daysInMonth
             THEN [grid EXCEPT ![hourIndex][day] = JsAdd(@, row.hours)]
             ELSE grid
    ELSE grid

\* dataGrid after the body of the booking loop ran on one row
AddBooking(grid, rows, daysInMonth, row, monthNum, year) ==
    IF RowPopulated(row) /\ RowInMonth(row, monthNum, year)
    THEN LET hourIndex == IndexOf(rows, StartHour(row.start))
             day == NewDate(row.date).d
         IN  IF hourIndex > 0 /\ day - 1 >= 0 /\ day - 1 < daysInMonth
             THEN [grid EXCEPT ![hourIndex][day] = JsAdd(@, row.hours)]
             ELSE grid
    ELSE grid

\* f[lo].n + ... + f[hi].n
RECURSIVE NumSum(_, _, _)
NumSum(f, lo, hi) ==
    IF lo > hi THEN 0
    ELSE IF lo = hi THEN f[lo].n
    ELSE NumSum(f, lo, (lo + hi) \div 2) + NumSum(f, ((lo + hi) \div 2) + 1, hi)

\* String(f[lo]) + ... + String(f[hi])
RECURSIVE StrConcat(_, _, _)
StrConcat(f, lo, hi) ==
    IF lo > hi THEN <<>>
    ELSE IF lo = hi THEN ToStr(f[lo])
    ELSE StrConcat(f, lo, (lo + hi) \div 2) \o StrConcat(f, ((lo + hi) \div 2) + 1, hi)

\* the loop  total = 0; for k = 1..n: total += f[k]  : the numbers add up
\* until the first string, and from that string on += appends text
SumTo(f, n) ==
    Bind([k \in 1..n |-> f[k]], LAMBDA g :
    Bind({k \in 1..n : g[k].t # "num"}, LAMBDA strs :
        LET first == IF strs = {} THEN n + 1
                     ELSE CHOOSE k \in strs : \A j \in strs : k <= j
        IN  IF first > n THEN Num(NumSum(g, 1, n))
            ELSE Str(NumToStr(NumSum(g, 1, first - 1)) \o StrConcat(g, first, n))))

\* value === 0 ? '' : value
BlankZero(v) == IF v = Num(0) THEN Empty ELSE v

\* rowTotal of grid row r
RowTotal(grid, r, daysInMonth) == SumTo(grid[r], daysInMonth)

\* colTotal of day c
ColTotal(grid, c) == SumTo([r \in 1..Len(grid) |-> grid[r][c]], Len(grid))

\* grandTotal: the sum of the column totals
GrandTotal(grid, daysInMonth) ==
    SumTo([c \in 1..daysInMonth |-> ColTotal(grid, c)], daysInMonth)

\* ------------------------------------------------------------------------
\* State
\* ------------------------------------------------------------------------
VARIABLES
    doc,                \* the spreadsheet: ClubInfo tab and the booking tabs
    response,           \* what the user answers to the month prompt
    destSheet,          \* the report tab "<Mon>-<YY> DH" of the spreadsheet
    CLUB_INFO_CACHE,    \* the global cache of getClubInfo
    pc,                 \* position of createHoursDaysTable
    alert,              \* the last ui.alert, or the error that was thrown
    monthDigits,        \* the text the user entered
    monthNum,
    year,
    parsedHours,        \* dayOpeningHours, earliestHour, latestHour after parsing
    availabilityData,   \* the result of calculateAvailableHours
    timeRows,           \* the local timeRows of createHoursDaysTable
    eTotal,
    e2Total,
    dataGrid,
    rowIdx,             \* the loop variable i of the booking loop, 1-based
    processedCount,
    run,                \* calls of createHoursDaysTable made in this process
    previous,           \* the document and the result of the call before
    timeArg,            \* the timeValue parseHourFromTime is called with
    hourArg,            \* the hour formatTimeAMPM is called with
    hourResult,         \* the hour parseHourFromTime returned
    returnData,         \* the argument of monthHours
    pairIdx,            \* the loop variable i of monthHours, 1-based
    results,            \* the result lines of monthHours
    validationData,     \* what monthHours returns when returnData is set
    checkSheet          \* the 'Parsing Results' rows of the ci_check tab

vars == <<doc, response, destSheet, CLUB_INFO_CACHE, pc, alert, monthDigits, monthNum, year,
          parsedHours, availabilityData, timeRows, eTotal, e2Total, dataGrid, rowIdx,
          processedCount, run, previous, timeArg, hourArg, hourResult, returnData, pairIdx,
          results, validationData, checkSheet>>

\* the calls made so far in the process
callVars == <<run, previous>>

\* the variables of a call of the time functions
timeVars == <<timeArg, hourArg, hourResult>>

\* the variables of monthHours and of checkClubInfo
monthVars == <<returnData, pairIdx, results, validationData, checkSheet>>

\* validationData before monthHours has built it
NoValidation == [monthDigits |-> <<>>, tabData |-> <<>>, allValid |-> TRUE]

docVars == <<doc, response, CLUB_INFO_CACHE>>

inputVars == <<monthDigits, monthNum, year, parsedHours>>

loopVars == <<dataGrid, rowIdx, processedCount>>

\* the cache before the first load
\* (the sheet object the cache holds is a reference to the ClubInfo tab)
NoCache == [loaded |-> FALSE, clubName |-> Empty, maxHoursPerHour |-> Empty]

\* availabilityData before calculateAvailableHours returned
NoAvailability ==
    [availableGrid |-> <<>>, timeRows |-> <<>>, daysInMonth |-> 0, monthNum |-> 0,
     year |-> 0, maxHoursPerHour |-> Empty, earliestHour |-> 0, latestHour |-> 0,
     dayOpeningHours |-> <<>>, dayOfWeekCache |-> <<>>]

\* a report tab in state "absent" (no such tab), "old" (left by an earlier
\* run) or "new" (inserted by this run), and what this run wrote to it
ReportTab(state) ==
    [state |-> state, e3 |-> "", totals |-> <<>>, maxHours |-> Empty,
     openingHoursOpen |-> <<>>, openingHoursClose |-> <<>>,
     dataRows |-> <<>>, rowTotals |-> <<>>, totalDatesRow |-> <<>>,
     grandTotal |-> Num(0), closedCells |-> {}, maxCapacityCells |-> {},
     capacityData |-> <<>>, utilizationData |-> <<>>, summary |-> <<>>]

\* the tab "<monthDigits><suffix>" of the document: the booking tabs of the
\* document all carry the prefix doc.month
HasTab(tab, text) == tab.present /\ doc.month = text

\* ------------------------------------------------------------------------
\* createHoursDaysTable, step by step
\* ------------------------------------------------------------------------
\* a prompt that comes after the configuration was loaded into the cache
PromptCachesFirst ==
    /\ pc = "prompt"
    /\ CLUB_INFO_CACHE' = [loaded |-> TRUE,
                           clubName |-> doc.clubInfo.sheet.clubName,
                           maxHoursPerHour |-> doc.clubInfo.sheet.capacity]
    /\ IF response.button # "OK"
       THEN /\ pc' = "returned"
            /\ UNCHANGED <<alert, inputVars>>
       ELSE IF ~IsFourDigits(response.text)
       THEN /\ pc' = "returned"
            /\ alert' = "Invalid Input"
            /\ monthDigits' = response.text
            /\ UNCHANGED <<monthNum, year, parsedHours>>
       ELSE /\ pc' = "getClubInfo"
            /\ monthDigits' = response.text
            /\ monthNum' = MonthOf(response.text)
            /\ year' = YearOf(response.text)
            /\ UNCHANGED <<alert, parsedHours>>
    /\ UNCHANGED <<callVars, monthVars, timeVars, doc, response, destSheet, availabilityData, timeRows,
                   eTotal, e2Total, loopVars>>

\* the prompt and the validation of the input
Prompt ==
    /\ pc = "prompt"
    /\ IF response.button # "OK"
       THEN /\ pc' = "returned"
            /\ UNCHANGED <<alert, inputVars>>
       ELSE IF ~IsFourDigits(response.text)
       THEN /\ pc' = "returned"
            /\ alert' = "Invalid Input"
            /\ monthDigits' = response.text
            /\ UNCHANGED <<monthNum, year, parsedHours>>
       ELSE /\ pc' = "getClubInfo"
            /\ monthDigits' = response.text
            /\ monthNum' = MonthOf(response.text)
            /\ year' = YearOf(response.text)
            /\ UNCHANGED <<alert, parsedHours>>
    /\ UNCHANGED <<callVars, monthVars, timeVars, docVars, destSheet, availabilityData, timeRows, eTotal, e2Total, loopVars>>

\* getClubInfo that takes the capacity of a cached entry from the club name
GetClubInfoHitName ==
    /\ pc = "getClubInfo"
    /\ IF CLUB_INFO_CACHE.loaded
       THEN /\ pc' = "calculate"
            /\ CLUB_INFO_CACHE' = [CLUB_INFO_CACHE EXCEPT !.maxHoursPerHour = CLUB_INFO_CACHE.clubName]
            /\ UNCHANGED alert
       ELSE IF ~doc.clubInfo.present
       THEN /\ pc' = "threw"
            /\ alert' = "ClubInfo tab not found"
            /\ UNCHANGED CLUB_INFO_CACHE
       ELSE /\ pc' = "calculate"
            /\ CLUB_INFO_CACHE' = [loaded |-> TRUE,
                                   clubName |-> doc.clubInfo.sheet.clubName,
                                   maxHoursPerHour |-> doc.clubInfo.sheet.capacity]
            /\ UNCHANGED alert
    /\ UNCHANGED <<callVars, monthVars, timeVars, doc, response, destSheet, inputVars, availabilityData,
                   timeRows, eTotal, e2Total, loopVars>>

\* getClubInfo, called first from createHoursDaysTable
GetClubInfo ==
    /\ pc = "getClubInfo"
    /\ IF CLUB_INFO_CACHE.loaded
       THEN /\ pc' = "calculate"
            /\ UNCHANGED <<CLUB_INFO_CACHE, alert>>
       ELSE IF ~doc.clubInfo.present
       THEN /\ pc' = "threw"
            /\ alert' = "ClubInfo tab not found"
            /\ UNCHANGED CLUB_INFO_CACHE
       ELSE /\ pc' = "calculate"
            /\ CLUB_INFO_CACHE' = [loaded |-> TRUE,
                                   clubName |-> doc.clubInfo.sheet.clubName,
                                   maxHoursPerHour |-> doc.clubInfo.sheet.capacity]
            /\ UNCHANGED alert
    /\ UNCHANGED <<callVars, monthVars, timeVars, doc, response, destSheet, inputVars, availabilityData, timeRows, eTotal,
                   e2Total, loopVars>>

\* calculateAvailableHours up to the end of the opening hours parsing; its
\* getClubInfo finds the cache
ParseHours ==
    /\ pc = "calculate"
    /\ parsedHours' = ParseOpeningHours(doc.clubInfo.sheet)
    /\ pc' = "defaults"
    /\ UNCHANGED <<callVars, monthVars, timeVars, docVars, destSheet, alert, monthDigits, monthNum, year, availabilityData,
                   timeRows, eTotal, e2Total, loopVars>>

\* calculateAvailableHours from the safety check to its return
Calculate ==
    /\ pc = "defaults"
    /\ availabilityData' =
          BuildAvailability(parsedHours,
                            [sheet |-> doc.clubInfo.sheet,
                             maxHoursPerHour |-> CLUB_INFO_CACHE.maxHoursPerHour],
                            monthNum, year)
    /\ timeRows' = availabilityData'.timeRows
    /\ pc' = "findSource"
    /\ UNCHANGED <<callVars, monthVars, timeVars, docVars, destSheet, alert, inputVars, eTotal, e2Total, loopVars>>

\* the lookup of the [MMYY]e_2 tab made after the report tab was recreated
FindSourceAfterRecreate ==
    /\ pc = "findSource"
    /\ IF HasTab(doc.e2, monthDigits)
       THEN pc' = "totals" /\ UNCHANGED <<alert, destSheet>>
       ELSE pc' = "returned" /\ alert' = "Error" /\ destSheet' = ReportTab("new")
    /\ UNCHANGED <<callVars, monthVars, timeVars, docVars, inputVars, availabilityData, timeRows, eTotal,
                   e2Total, loopVars>>

\* the lookup of the [MMYY]e_2 tab
FindSource ==
    /\ pc = "findSource"
    /\ IF HasTab(doc.e2, monthDigits)
       THEN pc' = "totals" /\ UNCHANGED alert
       ELSE pc' = "returned" /\ alert' = "Error"
    /\ UNCHANGED <<callVars, monthVars, timeVars, docVars, destSheet, inputVars, availabilityData, timeRows, eTotal,
                   e2Total, loopVars>>

\* the two column H totals; a missing [MMYY]e tab gives 0
Totals ==
    /\ pc = "totals"
    /\ eTotal' = IF HasTab(doc.e, monthDigits) THEN SumColumnH(doc.e.colH) ELSE 0
    /\ e2Total' = SumColumnH(ColumnH(doc.e2.rows))
    /\ pc' = "recreate"
    /\ UNCHANGED <<callVars, monthVars, timeVars, docVars, destSheet, alert, inputVars, availabilityData, timeRows,
                   loopVars>>

\* the report tab is deleted when it exists and inserted anew
Recreate ==
    /\ pc = "recreate"
    /\ destSheet' = ReportTab("new")
    /\ pc' = "header"
    /\ UNCHANGED <<callVars, monthVars, timeVars, docVars, alert, inputVars, availabilityData, timeRows, eTotal, e2Total,
                   loopVars>>

\* the key of dayOpeningHours found for a day name: the first key, in
\* insertion order, that equals it after toLowerCase().trim(); 0 when none
FoundKey(doh, dayName) ==
    LET hit(i) == Trim(ToLowerCase(doh[i].key)) = Trim(ToLowerCase(dayName))
    IN  IF \E i \in 1..Len(doh) : hit(i)
        THEN CHOOSE i \in 1..Len(doh) : hit(i) /\ \A j \in 1..(i - 1) : ~hit(j)
        ELSE 0

NotFound == <<"N", "o", "t", " ", "F", "o", "u", "n", "d">>

\* a header step that stops the run when the two totals differ
HeaderBlocking ==
    /\ pc = "header"
    /\ IF ReconStatus(eTotal, e2Total) = "OK"
       THEN /\ destSheet' = [destSheet EXCEPT !.e3 = "OK", !.totals = <<eTotal, e2Total>>]
            /\ pc' = "initGrid"
            /\ UNCHANGED alert
       ELSE /\ destSheet' = [destSheet EXCEPT !.e3 = "Please Check"]
            /\ pc' = "returned"
            /\ alert' = "Error"
    /\ UNCHANGED <<callVars, monthVars, timeVars, docVars, inputVars, availabilityData, timeRows, eTotal, e2Total, loopVars>>

\* the header rows: totals with their status, capacity, opening hours
Header ==
    /\ pc = "header"
    /\ LET doh == availabilityData.dayOpeningHours
       IN  destSheet' =
             [destSheet EXCEPT
                !.e3 = ReconStatus(eTotal, e2Total),
                !.totals = <<eTotal, e2Total>>,
                !.maxHours = CLUB_INFO_CACHE.maxHoursPerHour,
                !.openingHoursOpen =
                    [d \in 1..7 |-> IF FoundKey(doh, DayNames[d]) > 0
                                    THEN formatTimeAMPM(doh[FoundKey(doh, DayNames[d])].open)
                                    ELSE NotFound],
                !.openingHoursClose =
                    [d \in 1..7 |-> IF FoundKey(doh, DayNames[d]) > 0
                                    THEN formatTimeAMPM(doh[FoundKey(doh, DayNames[d])].close)
                                    ELSE NotFound]]
    /\ pc' = "initGrid"
    /\ UNCHANGED <<callVars, monthVars, timeVars, docVars, alert, inputVars, availabilityData, timeRows, eTotal, e2Total,
                   loopVars>>

\* the default rows of the safety check on timeRows
DefaultTimeRows == [i \in 1..16 |-> i + 7]

\* a grid of zeros with 31 columns whatever the month
ZeroGrid31(rows, daysInMonth) == [i \in 1..Len(rows) |-> [d \in 1..31 |-> Num(0)]]

\* the zero-filled grid: a row per time row, new Array(daysInMonth).fill(0)
ZeroGrid(rows, daysInMonth) == [i \in 1..Len(rows) |-> [d \in 1..daysInMonth |-> Num(0)]]

\* the safety check on timeRows and the zero-filled dataGrid
InitGrid ==
    /\ pc = "initGrid"
    /\ timeRows' = IF Len(timeRows) = 0 THEN DefaultTimeRows ELSE timeRows
    /\ dataGrid' = ZeroGrid(timeRows', availabilityData.daysInMonth)
    /\ rowIdx' = 2
    /\ processedCount' = 0
    /\ pc' = "bookings"
    /\ UNCHANGED <<callVars, monthVars, timeVars, docVars, destSheet, alert, inputVars, availabilityData, eTotal, e2Total>>

\* the row was added to the grid (processedCount++)
Placed(rows, daysInMonth, row, m, y) ==
    /\ RowPopulated(row)
    /\ RowInMonth(row, m, y)
    /\ IndexOf(rows, StartHour(row.start)) > 0
    /\ NewDate(row.date).d - 1 >= 0
    /\ NewDate(row.date).d - 1 < daysInMonth

\* one iteration of the booking loop (the header row of the tab is skipped)
ProcessRow ==
    /\ pc = "bookings"
    /\ rowIdx <= Len(doc.e2.rows)
    /\ dataGrid' = AddBooking(dataGrid, timeRows, availabilityData.daysInMonth,
                              doc.e2.rows[rowIdx], monthNum, year)
    /\ processedCount' = IF Placed(timeRows, availabilityData.daysInMonth,
                                   doc.e2.rows[rowIdx], monthNum, year)
                         THEN processedCount + 1 ELSE processedCount
    /\ rowIdx' = rowIdx + 1
    /\ UNCHANGED <<callVars, monthVars, timeVars, docVars, destSheet, pc, alert, inputVars, availabilityData, timeRows,
                   eTotal, e2Total>>

\* the label column entry of a time row: "'" + formatTimeAMPM(hour)
TimeLabel(hour) == <<"'">> \o formatTimeAMPM(hour)

\* the rows of the table, the row totals, the Total Dates row
WriteTable ==
    /\ pc = "bookings"
    /\ rowIdx > Len(doc.e2.rows)
    /\ LET days == availabilityData.daysInMonth
       IN  destSheet' =
             [destSheet EXCEPT
                !.dataRows =
                    [r \in 1..Len(timeRows) |->
                        [label |-> TimeLabel(timeRows[r]),
                         cells |-> [c \in 1..days |-> BlankZero(dataGrid[r][c])],
                         total |-> BlankZero(RowTotal(dataGrid, r, days))]],
                !.rowTotals = [r \in 1..Len(timeRows) |-> RowTotal(dataGrid, r, days)],
                !.totalDatesRow = [c \in 1..days |-> BlankZero(ColTotal(dataGrid, c))],
                !.grandTotal = GrandTotal(dataGrid, days)]
    /\ pc' = "classify"
    /\ UNCHANGED <<callVars, monthVars, timeVars, docVars, alert, inputVars, availabilityData, timeRows, eTotal, e2Total,
                   loopVars>>

\* v > 0 of JavaScript on a number or a string
GreaterThanZero(v) == ~IsNaN(ToNumber(v)) /\ ToNumber(v) > 0

\* the cell is formatted as closed
IsClosed(availableHours) == availableHours = Num(0)

\* the cell is formatted as at maximum capacity when it is booked to its
\* capacity or beyond
IsMaxCapacityOrOver(cellValue, availableHours) ==
    /\ Truthy(cellValue)
    /\ GreaterThanZero(availableHours)
    /\ ~IsNaN(ToNumber(cellValue))
    /\ ToNumber(cellValue) >= ToNumber(availableHours)

\* the cell is formatted as at maximum capacity
IsMaxCapacity(cellValue, availableHours) ==
    Truthy(cellValue) /\ GreaterThanZero(availableHours) /\ cellValue = availableHours

\* closed cells and cells at maximum capacity, as <<row, day>>
Classify ==
    /\ pc = "classify"
    /\ LET cells == (1..Len(timeRows)) \X (1..availabilityData.daysInMonth)
           grid == availabilityData.availableGrid
       IN  destSheet' =
             [destSheet EXCEPT
                !.closedCells = {x \in cells : IsClosed(grid[x[1]][x[2]])},
                !.maxCapacityCells =
                    {x \in cells : IsMaxCapacity(dataGrid[x[1]][x[2]], grid[x[1]][x[2]])}]
    /\ pc' = "utilization"
    /\ UNCHANGED <<callVars, monthVars, timeVars, docVars, alert, inputVars, availabilityData, timeRows, eTotal, e2Total,
                   loopVars>>

\* a / b of JavaScript kept as a fraction; "nan" when a is no number
Ratio(a, b) ==
    IF IsNaN(ToNumber(a)) \/ IsNaN(ToNumber(b))
    THEN [t |-> "nan", num |-> 0, den |-> 0]
    ELSE [t |-> "ratio", num |-> ToNumber(a), den |-> ToNumber(b)]

\* the '' written when there is nothing to divide by
Blank == [t |-> "blank", num |-> 0, den |-> 0]

\* totalAvailable of row r
TotalAvailable(grid, r, daysInMonth) == SumTo(grid[r], daysInMonth)

\* one entry of utilizationData with 0 written for a row without capacity
UtilizationOrZero(totalHours, totalAvailable) ==
    IF GreaterThanZero(totalAvailable) THEN Ratio(totalHours, totalAvailable)
    ELSE [t |-> "ratio", num |-> 0, den |-> 1]

\* one entry of utilizationData
Utilization(totalHours, totalAvailable) ==
    IF GreaterThanZero(totalAvailable) THEN Ratio(totalHours, totalAvailable) ELSE Blank

\* capacity and utilization columns
UtilizationColumns ==
    /\ pc = "utilization"
    /\ LET days == availabilityData.daysInMonth
           grid == availabilityData.availableGrid
       IN  destSheet' =
             [destSheet EXCEPT
                !.capacityData = [r \in 1..Len(timeRows) |-> TotalAvailable(grid, r, days)],
                !.utilizationData =
                    [r \in 1..Len(timeRows) |->
                        Utilization(destSheet.rowTotals[r], TotalAvailable(grid, r, days))]]
    /\ pc' = "summary"
    /\ UNCHANGED <<callVars, monthVars, timeVars, docVars, alert, inputVars, availabilityData, timeRows, eTotal, e2Total,
                   loopVars>>

\* the status of the line 'Booked Hours'
BookedStatus(grandTotal, e2) ==
    IF ~IsNaN(ToNumber(grandTotal)) /\ Abs(ToNumber(grandTotal) - e2) < Tolerance
    THEN "OK" ELSE "Check Sum"

\* the summary block and the success alert
Summary ==
    /\ pc = "summary"
    /\ LET totalAvailableHours == SumTo(destSheet.capacityData, Len(destSheet.capacityData))
       IN  destSheet' =
             [destSheet EXCEPT
                !.summary =
                    [totalHours |-> destSheet.grandTotal,
                     tableSum |-> "OK",
                     bookedHours |-> BookedStatus(destSheet.grandTotal, e2Total),
                     overall |-> Utilization(destSheet.grandTotal, totalAvailableHours)]]
    /\ alert' = "Success"
    /\ pc' = "returned"
    /\ UNCHANGED <<callVars, monthVars, timeVars, docVars, inputVars, availabilityData, timeRows, eTotal, e2Total, loopVars>>

Next ==
    \/ Prompt
    \/ GetClubInfo
    \/ ParseHours
    \/ Calculate
    \/ FindSource
    \/ Totals
    \/ Recreate
    \/ Header
    \/ InitGrid
    \/ ProcessRow
    \/ WriteTable
    \/ Classify
    \/ UtilizationColumns
    \/ Summary

\* ------------------------------------------------------------------------
\* Documents and answers the runs start from
\* ------------------------------------------------------------------------
\* rows of ClubInfo!A9:B25: day label and hours string
RowA(day, hours) == [day |-> Str(day), hours |-> Str(hours)]

RowsA ==
    { RowA(<<"M", "o", "n", "d", "a", "y">>, <<"0", "9", ":", "0", "0", "-", "1", "7", ":", "0", "0">>),
      RowA(<<"S", "a", "t", "u", "r", "d", "a", "y">>, <<"1", "0", ":", "0", "0", " ", "-", " ", "2", "4", ":", "0", "0">>),
      RowA(<<"S", "u", "n", "d", "a", "y">>, <<"0", "8", ":", "0", "0", "-", "0", "0", ":", "0", "0">>),
      RowA(<<"m", "o", "n", "d", "a", "y", " ">>, <<"0", "7", ":", "0", "0", "-", "1", "2", ":", "0", "0">>),
      RowA(<<"M", "o", "n", "d", "a", "y">>, <<"c", "l", "o", "s", "e", "d">>),
      RowA(<<"F", "r", "i", "d", "a", "y">>, <<>>),
      RowA(<<"T", "u", "e", "s", "d", "a", "y">>, <<"1", "7", ":", "0", "0", "-", "0", "9", ":", "0", "0">>),
      RowA(<<"F", "r", "i", "d", "a", "y">>, <<"a", "b", ":", "0", "0", "-", "1", "7", ":", "0", "0">>),
      RowA(<<"W", "e", "d", "n", "e", "s", "d", "a", "y">>, <<"0", "0", ":", "0", "0", "-", "2", "4", ":", "0", "0">>),
      RowA(<<"T", "h", "u", "r", "s", "d", "a", "y">>, <<"2", "5", ":", "0", "0", "-", "3", "0", ":", "0", "0">>) }

\* sequences of at most n elements of S
RECURSIVE SeqsUpTo(_, _)
SeqsUpTo(S, n) ==
    IF n = 0 THEN {<<>>}
    ELSE SeqsUpTo(S, n - 1) \cup
         {Append(q, x) : q \in {r \in SeqsUpTo(S, n - 1) : Len(r) = n - 1}, x \in S}

\* open / close cells of one column of ClubInfo!E6:K7
CellPairsB ==
    { <<Empty, Empty>>,
      <<DateVal(1899, 12, 30, 9), DateVal(1899, 12, 30, 17)>>,
      <<Str(<<"8", ":", "0", "0", " ", "A", "M">>), Str(<<"1", "2", ":", "0", "0", " ", "A", "M">>)>>,
      <<Num(3750), Num(0)>>,
      <<Str(<<"a", "b", "c">>), Str(<<"x", "y", "z">>)>>,
      <<Str(<<"1", "0", ":", "0", "0">>), Str(<<"2", "4", ":", "0", "0">>)>>,
      <<Str(<<"6", ":", "0", "0">>), Str(<<"0", "0", ":", "0", "0">>)>>,
      <<DateVal(1899, 12, 30, 18), DateVal(1899, 12, 30, 9)>> }

\* a ClubInfo tab; Saturday has its own cells, the other days share theirs
ClubInfoSheet(capacity, rowsA, others, saturday) ==
    [clubName |-> Str(<<"C", "l", "u", "b">>),
     capacity |-> capacity,
     rowsA |-> rowsA,
     open |-> [i \in 1..7 |-> IF i = 7 THEN saturday[1] ELSE others[1]],
     close |-> [i \in 1..7 |-> IF i = 7 THEN saturday[2] ELSE others[2]]]

Capacities == {Num(2 * Scale), Num(0)}

ListSheets ==
    { ClubInfoSheet(Num(2 * Scale), rows,
                    <<DateVal(1899, 12, 30, 6), DateVal(1899, 12, 30, 20)>>, <<Empty, Empty>>) :
        rows \in SeqsUpTo(RowsA, MaxRowsA) \ {<<>>} }

GridSheets ==
    { ClubInfoSheet(cap, <<>>, others, saturday) :
        cap \in Capacities, others \in CellPairsB, saturday \in CellPairsB }

\* booking rows of an e_2 tab: columns D (date), F (start time), H (hours)
Booking(date, start, hours) == [date |-> date, start |-> start, hours |-> hours]

HeaderRow == Booking(Str(<<"D", "a", "t", "e">>), Str(<<"S", "t", "a", "r", "t">>), Str(<<"H", "o", "u", "r", "s">>))

BookingRows ==
    { Booking(DateVal(2025, 2, 3, 0), Str(<<"9", ":", "0", "0", " ", "a", "m">>), Num(Scale)),
      Booking(DateVal(2025, 2, 3, 0), DateVal(1899, 12, 30, 9), Num(Scale \div 2)),
      Booking(DateVal(2025, 2, 3, 0), Num(0), Num(Scale)),
      Booking(DateVal(2025, 2, 4, 0), DateVal(1899, 12, 30, 0), Num(Scale)),
      Booking(DateVal(2025, 3, 3, 0), Str(<<"9", ":", "0", "0", " ", "a", "m">>), Num(Scale)),
      Booking(DateVal(2024, 2, 3, 0), DateVal(1899, 12, 30, 9), Num(2 * Scale)),
      Booking(DateVal(2025, 2, 3, 0), Str(<<"9", ":", "0", "0", " ", "a", "m">>), Str(<<"a", "b", "c">>)),
      Booking(DateVal(2025, 2, 28, 0), Str(<<"1", "1", ":", "0", "0", " ", "P", "M">>), Num(Scale)),
      Booking(DateVal(2025, 2, 5, 0), Num(4167), Num(2 * Scale)),
      Booking(Str(<<"n", "/", "a">>), Str(<<"9", ":", "0", "0", " ", "a", "m">>), Num(Scale)),
      Booking(DateVal(2025, 2, 5, 0), Num(15000), Num(Scale)),
      Booking(DateVal(2025, 2, 6, 0), Empty, Num(Scale)) }

\* the [MMYY]e_2 tabs: a header row and at most MaxRows booking rows
SourceTabs == {<<HeaderRow>> \o rows : rows \in SeqsUpTo(BookingRows, MaxRows)}

\* differences between the two column H totals, in units of 1/Scale
Deltas == {0, 49, 0 - 49, 99, 100, 0 - 100, 101, 0 - 101, Scale}

\* column H of an [MMYY]e tab whose total differs by delta from the e_2 tab
ETab(rows, delta) ==
    [present |-> TRUE,
     colH |-> <<HeaderRow.hours, Num(SumColumnH(ColumnH(rows)) + delta)>>]

NoTab == [present |-> FALSE, colH |-> <<>>]

Feb25 == <<"0", "2", "2", "5">>

Mar25 == <<"0", "3", "2", "5">>

Document(month, sheet, eTab, rows) ==
    [month |-> month,
     clubInfo |-> [present |-> TRUE, sheet |-> sheet],
     e |-> eTab,
     e2 |-> [present |-> TRUE, rows |-> rows]]

Answer(button, text) == [button |-> button, text |-> text]

\* no call was made before the first one
NoPrevious ==
    [calculated |-> FALSE, clubInfo |-> [present |-> FALSE], monthDigits |-> <<>>,
     availabilityData |-> NoAvailability, maxHours |-> Empty]

\* a run: the document and the answer to the prompt
Runs(docs, answer) == {[doc |-> d, response |-> answer] : d \in docs}

\* the state before createHoursDaysTable is called
Start(runs, reports) ==
    /\ \E r \in runs : doc = r.doc /\ response = r.response
    /\ destSheet \in reports
    /\ CLUB_INFO_CACHE = NoCache
    /\ pc = "prompt"
    /\ alert = "none"
    /\ monthDigits = <<>>
    /\ monthNum = 0
    /\ year = 0
    /\ parsedHours = StartHours
    /\ availabilityData = NoAvailability
    /\ timeRows = <<>>
    /\ eTotal = 0
    /\ e2Total = 0
    /\ dataGrid = <<>>
    /\ rowIdx = 0
    /\ processedCount = 0
    /\ run = 1
    /\ previous = NoPrevious
    /\ timeArg = Empty
    /\ hourArg = 0
    /\ hourResult = 0
    /\ returnData = FALSE
    /\ pairIdx = 0
    /\ results = <<>>
    /\ validationData = NoValidation
    /\ checkSheet = <<>>

\* Monday 09:00-17:00 alone, and with Wednesday 00:00-24:00
BookingSheets ==
    { ClubInfoSheet(Num(2 * Scale), rows,
                    <<DateVal(1899, 12, 30, 6), DateVal(1899, 12, 30, 20)>>, <<Empty, Empty>>) :
        rows \in { <<RowA(<<"M", "o", "n", "d", "a", "y">>, <<"0", "9", ":", "0", "0", "-", "1", "7", ":", "0", "0">>)>>,
                   <<RowA(<<"M", "o", "n", "d", "a", "y">>, <<"0", "9", ":", "0", "0", "-", "1", "7", ":", "0", "0">>), RowA(<<"W", "e", "d", "n", "e", "s", "d", "a", "y">>, <<"0", "0", ":", "0", "0", "-", "2", "4", ":", "0", "0">>)>> } }

\* runs that end early: a required tab is missing, the prompt is cancelled,
\* the text is not four digits, the booking tabs are those of another month
EarlyRuns ==
    LET sheet == CHOOSE x \in BookingSheets : TRUE
        d == Document(Feb25, sheet, NoTab, <<HeaderRow>>)
    IN  Runs({[d EXCEPT !.clubInfo.present = FALSE], [d EXCEPT !.e2.present = FALSE]},
             Answer("OK", Feb25))
        \cup Runs({d}, Answer("Cancel", <<>>))
        \cup Runs({d}, Answer("OK", <<"2", "5">>))
        \cup Runs({d}, Answer("OK", <<"0", "2", "a", "5">>))
        \cup Runs({d}, Answer("OK", Mar25))

\* runs for February 2025 over every e_2 tab, for two opening-hours lists,
\* and runs for March 2025 over the tabs of one booking row
Init ==
    Start(Runs({Document(Feb25, sheet, ETab(rows, 0), rows) :
                   sheet \in BookingSheets, rows \in SourceTabs}, Answer("OK", Feb25))
          \cup Runs({Document(Mar25, sheet, ETab(<<HeaderRow, row>>, 0), <<HeaderRow, row>>) :
                        sheet \in BookingSheets, row \in BookingRows}, Answer("OK", Mar25))
          \cup EarlyRuns,
          {ReportTab("absent")})

Spec == Init /\ [][Next]_vars

\* two booking rows used with every ClubInfo tab
SampleRows ==
    <<HeaderRow,
      Booking(DateVal(2025, 2, 3, 0), Str(<<"9", ":", "0", "0", " ", "a", "m">>), Num(Scale)),
      Booking(DateVal(2025, 2, 28, 0), Str(<<"1", "1", ":", "0", "0", " ", "P", "M">>), Num(Scale))>>

\* Monday to Friday 09:00-17:00 in A9:B25, nothing for Saturday and Sunday,
\* capacity 2
WeekdaySheet ==
    ClubInfoSheet(Num(2 * Scale),
                  [i \in 1..5 |-> RowA(DayNames[i + 1],
                                       <<"0", "9", ":", "0", "0", "-", "1", "7", ":", "0", "0">>)],
                  <<Empty, Empty>>, <<Empty, Empty>>)

\* the one row  monday | 09:00-00:30  in A9:B25: a lower-case label and a
\* close time half an hour after midnight
LateCloseSheet ==
    ClubInfoSheet(Num(2 * Scale),
                  <<RowA(<<"m", "o", "n", "d", "a", "y">>,
                         <<"0", "9", ":", "0", "0", "-", "0", "0", ":", "3", "0">>)>>,
                  <<Empty, Empty>>, <<Empty, Empty>>)

\* Monday listed twice in A9:B25: 07:00-22:00, then 09:00-17:00
RepeatedDaySheet ==
    ClubInfoSheet(Num(2 * Scale),
                  <<RowA(<<"M", "o", "n", "d", "a", "y">>,
                         <<"0", "7", ":", "0", "0", "-", "2", "2", ":", "0", "0">>),
                    RowA(<<"M", "o", "n", "d", "a", "y">>,
                         <<"0", "9", ":", "0", "0", "-", "1", "7", ":", "0", "0">>)>>,
                  <<Empty, Empty>>, <<Empty, Empty>>)

\* months asked for: February 2025, May 2024, and 13/2025
Months == {Feb25, <<"0", "5", "2", "4">>, <<"1", "3", "2", "5">>}

\* runs for February 2025 over every ClubInfo tab, and for every month over
\* the ClubInfo tabs without an opening-hours list
InitCfg ==
    Start(Runs({Document(Feb25, sheet, ETab(SampleRows, 0), SampleRows) :
                   sheet \in ListSheets \cup {WeekdaySheet, LateCloseSheet, RepeatedDaySheet}}, Answer("OK", Feb25))
          \cup UNION {Runs({Document(month, sheet, ETab(SampleRows, 0), SampleRows) :
                               sheet \in GridSheets}, Answer("OK", month)) :
                         month \in Months}
          \cup EarlyRuns,
          {ReportTab("absent")})

SpecCfg == InitCfg /\ [][Next]_vars

\* runs over every difference of the two totals, with and without an e tab,
\* with and without a report tab left by an earlier run, for the opening
\* hours Monday 09:00-17:00 and at most one booking row on 3 February 2025
InitRecon ==
    Start(Runs(UNION {{Document(Feb25, sheet, eTab, <<HeaderRow>> \o rows) :
                          sheet \in {x \in BookingSheets : Len(x.rowsA) = 1},
                          eTab \in {NoTab} \cup {ETab(rows, delta) : delta \in Deltas}} :
                      rows \in SeqsUpTo({r \in BookingRows : r.date = DateVal(2025, 2, 3, 0)}, 1)},
               Answer("OK", Feb25))
          \cup EarlyRuns,
          {ReportTab("absent"), ReportTab("old")})

\* the script runs to its end once started: nothing in it waits
SpecRecon == InitRecon /\ [][Next]_vars /\ WF_vars(Next)

\* ------------------------------------------------------------------------
\* Calls of formatTimeAMPM and parseHourFromTime on their own
\* ------------------------------------------------------------------------
\* formatTimeAMPM(hour): the label of an hour
FormatTime ==
    /\ pc = "format"
    /\ timeArg' = Str(formatTimeAMPM(hourArg))
    /\ pc' = "parseLabel"
    /\ UNCHANGED <<callVars, monthVars, hourArg, hourResult, docVars, destSheet, alert, inputVars,
                   availabilityData, timeRows, eTotal, e2Total, loopVars>>

\* parseHourFromTime(timeValue), on a label of formatTimeAMPM or on a cell
ParseTime ==
    /\ pc \in {"parse", "parseLabel"}
    /\ hourResult' = parseHourFromTime(timeArg)
    /\ pc' = IF pc = "parseLabel" THEN "recovered" ELSE "parsed"
    /\ UNCHANGED <<callVars, monthVars, timeArg, hourArg, docVars, destSheet, alert, inputVars,
                   availabilityData, timeRows, eTotal, e2Total, loopVars>>

NextTime ==
    \/ FormatTime
    \/ ParseTime

\* two decimal digits of an hour or a minute
Pad2(n) == IF n < 10 THEN <<"0">> \o NatToStr(n) ELSE NatToStr(n)

\* Date cells: a time of day is a Date on 30 December 1899
DateTimes == {DateVal(1899, 12, 30, h) : h \in 0..23}

\* fractions of a day in [0, 1): every full hour, the value just below it and
\* the largest fraction
DayFractions ==
    {Num((h * Scale) \div 24) : h \in 0..23} \cup {Num(((h * Scale) \div 24) + 1) : h \in 0..23}
    \cup {Num(Scale - 1)}

\* strings in AM/PM form: hours 1..12, with and without minutes and space
AmPmStrings ==
    {Str(NatToStr(h) \o sep \o mer) :
        h \in 1..12,
        sep \in {<<>>, <<" ">>, <<":", "0", "0", " ">>, <<":", "3", "0">>},
        mer \in {<<"A", "M">>, <<"P", "M">>, <<"a", "m">>, <<"p", "m">>}}
    \cup {Str(<<" ">> \o Pad2(h) \o <<":", "1", "5", " ", "P", "m", " ">>) : h \in 1..12}

\* strings in HH:MM form, 00:00 to 24:00 (the close time at midnight)
HourMinuteStrings ==
    {Str(Pad2(h) \o <<":">> \o mm) : h \in 0..23, mm \in {<<"0", "0">>, <<"5", "9">>}}
    \cup {Str(NatToStr(h) \o <<":", "3", "0">>) : h \in 0..9}
    \cup {Str(<<"2", "4", ":", "0", "0">>)}

\* strings that are an integer, 0 to 24
IntegerStrings == {Str(NatToStr(h)) : h \in 0..24} \cup {Str(Pad2(h)) : h \in 0..9}

TimeValues ==
    DateTimes \cup DayFractions \cup AmPmStrings \cup HourMinuteStrings \cup IntegerStrings

\* a caller formats an hour 0..23 and parses the label, or parses a cell
InitTime ==
    /\ \/ pc = "format" /\ hourArg \in 0..23 /\ timeArg = Empty
       \/ pc = "parse" /\ hourArg = 0 /\ timeArg \in TimeValues
    /\ hourResult = 0
    /\ doc = Document(Feb25, CHOOSE x \in BookingSheets : TRUE, NoTab, <<HeaderRow>>)
    /\ response = Answer("Cancel", <<>>)
    /\ destSheet = ReportTab("absent")
    /\ CLUB_INFO_CACHE = NoCache
    /\ alert = "none"
    /\ monthDigits = <<>>
    /\ monthNum = 0
    /\ year = 0
    /\ parsedHours = StartHours
    /\ availabilityData = NoAvailability
    /\ timeRows = <<>>
    /\ eTotal = 0
    /\ e2Total = 0
    /\ dataGrid = <<>>
    /\ rowIdx = 0
    /\ processedCount = 0
    /\ run = 0
    /\ previous = NoPrevious
    /\ returnData = FALSE
    /\ pairIdx = 0
    /\ results = <<>>
    /\ validationData = NoValidation
    /\ checkSheet = <<>>

SpecTime == InitTime /\ [][NextTime]_vars

\* ------------------------------------------------------------------------
\* Several calls of createHoursDaysTable in one process: the global
\* CLUB_INFO_CACHE is set to null when the script is loaded and by nothing else
\* ------------------------------------------------------------------------
\* calls of createHoursDaysTable made in one process
MaxRuns == 2

\* the document after the user edited the ClubInfo tab between two calls:
\* nothing, the capacity cell D5, the club name B4, the list A9:B25, or the
\* tab is added when it was missing
EditedDocs(d) ==
    {d}
    \cup {[d EXCEPT !.clubInfo.sheet.capacity = c] : c \in {Num(2 * Scale), Num(4 * Scale)}}
    \cup {[d EXCEPT !.clubInfo.sheet.clubName = Str(<<"O", "t", "h", "e", "r">>)]}
    \cup {[d EXCEPT !.clubInfo.sheet.rowsA = (CHOOSE x \in BookingSheets : Len(x.rowsA) = 2).rowsA]}
    \cup {[d EXCEPT !.clubInfo.present = TRUE]}

\* createHoursDaysTable is called again: its locals are new, the globals and
\* the report tab of the call before stay
RunAgain ==
    /\ pc \in {"returned", "threw"}
    /\ run < MaxRuns
    /\ run' = run + 1
    /\ previous' = [calculated |-> availabilityData # NoAvailability,
                    clubInfo |-> doc.clubInfo,
                    monthDigits |-> monthDigits,
                    availabilityData |-> availabilityData,
                    maxHours |-> CLUB_INFO_CACHE.maxHoursPerHour]
    /\ doc' \in EditedDocs(doc)
    /\ destSheet' = IF destSheet.state = "absent" THEN destSheet ELSE ReportTab("old")
    /\ pc' = "prompt"
    /\ alert' = "none"
    /\ monthDigits' = <<>>
    /\ monthNum' = 0
    /\ year' = 0
    /\ parsedHours' = StartHours
    /\ availabilityData' = NoAvailability
    /\ timeRows' = <<>>
    /\ eTotal' = 0
    /\ e2Total' = 0
    /\ dataGrid' = <<>>
    /\ rowIdx' = 0
    /\ processedCount' = 0
    /\ UNCHANGED <<response, CLUB_INFO_CACHE, timeVars, monthVars>>

NextRuns ==
    \/ Next
    \/ RunAgain

\* first calls for February 2025 with one booking, for the two opening-hours
\* lists and a grid, and the calls that end early
InitRuns ==
    Start(Runs({Document(Feb25, sheet, ETab(<<HeaderRow, row>>, 0), <<HeaderRow, row>>) :
                   sheet \in BookingSheets
                             \cup {ClubInfoSheet(Num(2 * Scale), <<>>,
                                                 <<DateVal(1899, 12, 30, 9), DateVal(1899, 12, 30, 17)>>,
                                                 <<Empty, Empty>>)},
                   row \in {Booking(DateVal(2025, 2, 3, 0), DateVal(1899, 12, 30, 9), Num(Scale \div 2))}},
               Answer("OK", Feb25))
          \cup EarlyRuns,
          {ReportTab("absent")})

SpecRuns == InitRuns /\ [][NextRuns]_vars

\* ------------------------------------------------------------------------
\* monthHours, run from the menu after createHoursDaysTable on the same
\* document and with the same answer to its prompt
\* ------------------------------------------------------------------------
\* the k-th entry of tabPairs with the two tabs it names
PairTabs(k) ==
    IF k = 1
    THEN [name |-> "e", primary |-> doc.e,
          secondary |-> [present |-> doc.e2.present, colH |-> ColumnH(doc.e2.rows)]]
    ELSE IF k = 2
    THEN [name |-> "i", primary |-> doc.i, secondary |-> doc.i2]
    ELSE [name |-> "na", primary |-> doc.na, secondary |-> doc.na2]

\* the user picks 'Run Month Hours'
CallMonthHours ==
    /\ pc \in {"returned", "threw"}
    /\ pc' = "monthPrompt"
    /\ alert' = "none"
    /\ returnData' \in BOOLEAN
    /\ UNCHANGED <<callVars, timeVars, pairIdx, results, validationData, checkSheet, docVars, destSheet, inputVars,
                   availabilityData, timeRows, eTotal, e2Total, loopVars>>

\* the prompt of monthHours, the validation of the input, and the locals
\* set up before the loop
MonthPrompt ==
    /\ pc = "monthPrompt"
    /\ IF response.button # "OK"
       THEN /\ pc' = "monthReturned"
            /\ UNCHANGED <<alert, monthDigits, pairIdx, results, validationData>>
       ELSE IF ~IsFourDigits(response.text)
       THEN /\ pc' = "monthReturned"
            /\ alert' = "Invalid Input"
            /\ monthDigits' = response.text
            /\ UNCHANGED <<pairIdx, results, validationData>>
       ELSE /\ pc' = "pairs"
            /\ monthDigits' = response.text
            /\ pairIdx' = 1
            /\ results' = <<>>
            /\ validationData' = [NoValidation EXCEPT !.monthDigits = response.text]
            /\ UNCHANGED alert
    /\ UNCHANGED <<callVars, timeVars, returnData, checkSheet, docVars, destSheet, monthNum, year, parsedHours,
                   availabilityData, timeRows, eTotal, e2Total, loopVars>>

\* a loop that ends at the first pair with a missing tab
ComparePairStopping ==
    /\ pc = "pairs"
    /\ LET pair == PairTabs(pairIdx)
           primarySum == SumColumnH(pair.primary.colH)
           secondarySum == SumColumnH(pair.secondary.colH)
           isEqual == primarySum = secondarySum
           missing == ~HasTab(pair.primary, monthDigits) \/ ~HasTab(pair.secondary, monthDigits)
       IN  /\ IF missing
              THEN /\ results' = Append(results, [name |-> pair.name, text |-> "tab not found",
                                                  primarySum |-> 0, secondarySum |-> 0])
                   /\ validationData' = [validationData EXCEPT !.allValid = FALSE]
              ELSE /\ results' = Append(results, [name |-> pair.name,
                                                  text |-> IF isEqual THEN "EQUAL" ELSE "NOT EQUAL",
                                                  primarySum |-> primarySum,
                                                  secondarySum |-> secondarySum])
                   /\ validationData' = validationData
           /\ pc' = IF pairIdx = 3 \/ missing THEN "results" ELSE "pairs"
    /\ pairIdx' = pairIdx + 1
    /\ UNCHANGED <<callVars, timeVars, returnData, checkSheet, docVars, destSheet, alert, inputVars,
                   availabilityData, timeRows, eTotal, e2Total, loopVars>>

\* one turn of the loop over tabPairs
ComparePair ==
    /\ pc = "pairs"
    /\ LET pair == PairTabs(pairIdx)
           primarySum == SumColumnH(pair.primary.colH)
           secondarySum == SumColumnH(pair.secondary.colH)
           isEqual == primarySum = secondarySum
       IN  IF ~HasTab(pair.primary, monthDigits)
           THEN /\ results' = Append(results, [name |-> pair.name, text |-> "Primary tab not found",
                                               primarySum |-> 0, secondarySum |-> 0])
                /\ validationData' = [validationData EXCEPT !.allValid = FALSE]
           ELSE IF ~HasTab(pair.secondary, monthDigits)
           THEN /\ results' = Append(results, [name |-> pair.name, text |-> "Secondary tab not found",
                                               primarySum |-> 0, secondarySum |-> 0])
                /\ validationData' = [validationData EXCEPT !.allValid = FALSE]
           ELSE /\ results' = Append(results, [name |-> pair.name,
                                               text |-> IF isEqual THEN "EQUAL" ELSE "NOT EQUAL",
                                               primarySum |-> primarySum,
                                               secondarySum |-> secondarySum])
                /\ validationData' =
                      IF returnData
                      THEN [validationData EXCEPT
                               !.tabData = Append(@, [name |-> pair.name,
                                                      primarySum |-> primarySum,
                                                      secondarySum |-> secondarySum,
                                                      isValid |-> isEqual]),
                               !.allValid = @ /\ isEqual]
                      ELSE validationData
    /\ pairIdx' = pairIdx + 1
    /\ pc' = IF pairIdx = 3 THEN "results" ELSE "pairs"
    /\ UNCHANGED <<callVars, timeVars, returnData, checkSheet, docVars, destSheet, alert, inputVars,
                   availabilityData, timeRows, eTotal, e2Total, loopVars>>

\* the results are shown and monthHours returns
ShowResults ==
    /\ pc = "results"
    /\ alert' = "Month Hours Results"
    /\ pc' = "monthReturned"
    /\ UNCHANGED <<callVars, timeVars, monthVars, docVars, destSheet, inputVars, availabilityData,
                   timeRows, eTotal, e2Total, loopVars>>

NextMonth ==
    \/ Next
    \/ CallMonthHours
    \/ MonthPrompt
    \/ ComparePair
    \/ ShowResults

\* a document with the tabs of the i and na pairs
MonthDocument(d, tabs) ==
    [month |-> d.month, clubInfo |-> d.clubInfo, e |-> d.e, e2 |-> d.e2,
     i |-> tabs[1], i2 |-> tabs[2], na |-> tabs[3], na2 |-> tabs[4]]

\* the i and na pairs: equal totals, a missing primary or secondary tab,
\* totals that differ by 0.0049
PairCases ==
    LET tab(total) == [present |-> TRUE, colH |-> <<HeaderRow.hours, Num(total)>>]
    IN  { <<ip[1], ip[2], nap[1], nap[2]>> :
            ip \in { <<tab(3 * Scale), tab(3 * Scale)>>, <<NoTab, tab(3 * Scale)>>,
                     <<tab(3 * Scale), NoTab>>, <<tab(3 * Scale), tab(3 * Scale + 49)>> },
            nap \in { <<tab(0), tab(0)>>, <<NoTab, NoTab>> } }

\* the runs of the reconciliation checks and the runs that end early, over
\* every case of the i and na pairs
InitMonth ==
    Start({[r EXCEPT !.doc = MonthDocument(r.doc, tabs)] :
              r \in Runs(UNION {{Document(Feb25, sheet, eTab, <<HeaderRow>> \o rows) :
                                    sheet \in {x \in BookingSheets : Len(x.rowsA) = 1},
                                    eTab \in {NoTab} \cup {ETab(rows, delta) : delta \in Deltas}} :
                                rows \in SeqsUpTo({b \in BookingRows : b.date = DateVal(2025, 2, 3, 0)}, 1)},
                         Answer("OK", Feb25))
                    \cup EarlyRuns,
              tabs \in PairCases},
          {ReportTab("absent"), ReportTab("old")})

SpecMonth == InitMonth /\ [][NextMonth]_vars

\* ------------------------------------------------------------------------
\* A spreadsheet service call that throws: createHoursDaysTable has no
\* handler around its reads and writes (only around setHiddenGridlines), so
\* the exception ends the run where it is
\* ------------------------------------------------------------------------
StoreThrows ==
    /\ pc \in {"getClubInfo", "calculate", "findSource", "totals", "recreate", "header",
               "bookings", "classify", "utilization", "summary"}
    /\ pc' = "threw"
    /\ alert' = "Service error"
    /\ UNCHANGED <<callVars, timeVars, monthVars, docVars, destSheet, inputVars, availabilityData,
                   timeRows, eTotal, e2Total, loopVars>>

NextFail ==
    \/ Next
    \/ StoreThrows

\* the runs of the reconciliation checks, with and without an earlier report
SpecFail == InitRecon /\ [][NextFail]_vars

\* ------------------------------------------------------------------------
\* checkClubInfo, the diagnostic of the baseline script, run from the menu
\* after createHoursDaysTable on the same document
\* ------------------------------------------------------------------------
\* the 'Parsing Results' line of one populated row of A9:B25: the hours are
\* written when the text has one hyphen, whatever they parse to
CheckRow(row) ==
    Bind(Split(ToStr(row.hours), "-"), LAMBDA parts :
        IF Len(parts) = 2
        THEN LET closeTime == Trim(parts[2])
                 openHour == ParseInt(Split(Trim(parts[1]), ":")[1])
                 closeHour == IF closeTime \in {<<"2", "4", ":", "0", "0">>, <<"0", "0", ":", "0", "0">>}
                              THEN 24
                              ELSE ParseInt(Split(closeTime, ":")[1])
             IN  [day |-> row.day, hours |-> <<openHour, closeHour>>,
                  status |-> IF ~IsNaN(openHour) /\ ~IsNaN(closeHour) THEN "OK" ELSE "Parse Error"]
        ELSE [day |-> row.day, hours |-> <<>>, status |-> "No hyphen found"])

\* the lines of the rows i..Len(rawData) that have a day and hours
RECURSIVE CheckRows(_, _)
CheckRows(rawData, i) ==
    IF i > Len(rawData) THEN <<>>
    ELSE IF Truthy(rawData[i].day) /\ Truthy(rawData[i].hours)
    THEN <<CheckRow(rawData[i])>> \o CheckRows(rawData, i + 1)
    ELSE CheckRows(rawData, i + 1)

\* the user picks the diagnostic
CheckClubInfo ==
    /\ pc \in {"returned", "threw"}
    /\ pc' = "checked"
    /\ IF ~doc.clubInfo.present
       THEN alert' = "Error" /\ UNCHANGED checkSheet
       ELSE alert' = "Diagnostic Complete" /\ checkSheet' = CheckRows(doc.clubInfo.sheet.rowsA, 1)
    /\ UNCHANGED <<callVars, timeVars, returnData, pairIdx, results, validationData, docVars,
                   destSheet, inputVars, availabilityData, timeRows, eTotal, e2Total, loopVars>>

NextCheck ==
    \/ Next
    \/ CheckClubInfo

\* runs for February 2025 over every opening-hours list, and over the one
\* row  Friday | 08:00:00-00:00:00  whose times carry seconds
InitCheck ==
    Start(Runs({Document(Feb25, sheet, ETab(SampleRows, 0), SampleRows) :
                   sheet \in ListSheets
                             \cup {ClubInfoSheet(Num(2 * Scale),
                                                 <<RowA(<<"F", "r", "i", "d", "a", "y">>,
                                                        <<"0", "8", ":", "0", "0", ":", "0", "0", "-",
                                                          "0", "0", ":", "0", "0", ":", "0", "0">>)>>,
                                                 <<Empty, Empty>>, <<Empty, Empty>>)}},
               Answer("OK", Feb25))
          \cup EarlyRuns,
          {ReportTab("absent")})

SpecCheck == InitCheck /\ [][NextCheck]_vars

\* ------------------------------------------------------------------------
\* The baseline variant of createHoursDaysTable. Its steps up to the written
\* table are those of the optimized variant, statement for statement (the
\* configuration is read from the ClubInfo tab instead of the cache); its
\* formatting pass reads each cell back from the report tab
\* ------------------------------------------------------------------------
\* cellValue && availableHours > 0 && Number(cellValue) === Number(availableHours)
IsMaxCapacityBaseline(cellValue, availableHours) ==
    /\ Truthy(cellValue)
    /\ GreaterThanZero(availableHours)
    /\ ~IsNaN(ToNumber(cellValue))
    /\ ToNumber(cellValue) = ToNumber(availableHours)

\* the cells the baseline variant formats as at maximum capacity, given the
\* table written to the report tab
BaselineMaxCapacityCells ==
    {x \in (1..Len(timeRows)) \X (1..availabilityData.daysInMonth) :
        IsMaxCapacityBaseline(destSheet.dataRows[x[1]].cells[x[2]],
                              availabilityData.availableGrid[x[1]][x[2]])}

\* runs for February 2025 with Friday 09:00-17:00 and capacity 2, over the
\* bookings of Friday 28 February at 4 PM (the last cell of the table) and
\* at 10 AM; the hours of one booking are the text "2"
InitVariants ==
    LET friday == ClubInfoSheet(Num(2 * Scale),
                                <<RowA(<<"F", "r", "i", "d", "a", "y">>,
                                       <<"0", "9", ":", "0", "0", "-", "1", "7", ":", "0", "0">>)>>,
                                <<Empty, Empty>>, <<Empty, Empty>>)
        bookings == { Booking(DateVal(2025, 2, 28, 0), DateVal(1899, 12, 30, 16), Str(<<"2">>)),
                      Booking(DateVal(2025, 2, 28, 0), DateVal(1899, 12, 30, 16), Num(2 * Scale)),
                      Booking(DateVal(2025, 2, 28, 0), DateVal(1899, 12, 30, 16), Num(Scale)),
                      Booking(DateVal(2025, 2, 28, 0), DateVal(1899, 12, 30, 10), Num(2 * Scale)) }
    IN  Start(Runs({Document(Feb25, friday, ETab(<<HeaderRow>> \o rows, 0), <<HeaderRow>> \o rows) :
                       rows \in SeqsUpTo(bookings, MaxRows)},
                   Answer("OK", Feb25)),
              {ReportTab("absent")})

SpecVariants == InitVariants /\ [][Next]_vars

\* ------------------------------------------------------------------------
\* Properties
\* ------------------------------------------------------------------------
\* calculateAvailableHours has returned
Calculated == pc \in {"findSource", "totals", "recreate", "header", "initGrid", "bookings",
                      "classify", "utilization", "summary"}
              \/ (pc = "returned" /\ alert \in {"Error", "Success"})

\* the booking loop has ended
Aggregated == pc \in {"classify", "utilization", "summary"}
              \/ (pc = "returned" /\ alert = "Success")

\* the name of the weekday of day d of the month asked for
WeekdayOf(d) ==
    DayNames[GetDay(NormYear(year, monthNum - 1), NormMonth(monthNum - 1), d) + 1]

\* the weekly schedule has an entry for the weekday that is open at hour h
OpenAt(schedule, dayName, h) ==
    \E e \in 1..Len(schedule) :
        schedule[e].key = dayName /\ schedule[e].open <= h /\ h < schedule[e].close

\* C1: after calculateAvailableHours, every availability cell [hour h][day d]
\* is the capacity per hour when the weekday of d has a schedule entry with
\* open <= h < close, and 0 otherwise (no entry for the weekday included).
C1_AvailabilityCell ==
    Calculated =>
        \A i \in 1..Len(availabilityData.timeRows) :
            \A d \in 1..availabilityData.daysInMonth :
                availabilityData.availableGrid[i][d] =
                    IF OpenAt(availabilityData.dayOpeningHours, WeekdayOf(d),
                              availabilityData.timeRows[i])
                    THEN CLUB_INFO_CACHE.maxHoursPerHour
                    ELSE Num(0)

\* C1 witness: a grid with an open cell, a cell of a listed weekday outside
\* its hours and a cell of a weekday that is not listed
C1_Witness ==
    LET grid == availabilityData.availableGrid
        schedule == availabilityData.dayOpeningHours
        cells == (1..Len(availabilityData.timeRows)) \X (1..availabilityData.daysInMonth)
    IN  /\ pc = "findSource"
        /\ CLUB_INFO_CACHE.maxHoursPerHour = Num(2 * Scale)
        /\ \E x \in cells : grid[x[1]][x[2]] = Num(2 * Scale)
        /\ \E x \in cells :
            /\ HasKey(schedule, WeekdayOf(x[2]))
            /\ availabilityData.timeRows[x[1]] = GetEntry(schedule, WeekdayOf(x[2])).close
            /\ grid[x[1]][x[2]] = Num(0)
        /\ \E x \in cells :
            /\ ~HasKey(schedule, WeekdayOf(x[2]))
            /\ grid[x[1]][x[2]] = Num(0)

\* a cell of a booking row that is not empty
NonEmpty(v) == v # Empty

\* the row is dated day d of the month asked for
OnDay(row, d) ==
    /\ row.date.t = "date"
    /\ DateYear(row.date) = year
    /\ DateMonth(row.date) = monthNum
    /\ DateDay(row.date) = d

\* the row counts for the cell of hour h and day d
CountsFor(row, h, d) ==
    /\ NonEmpty(row.date) /\ NonEmpty(row.start) /\ NonEmpty(row.hours)
    /\ OnDay(row, d)
    /\ StartHour(row.start) = h

\* the hours of rows 2..k that count for hour h and day d, added up in order
RECURSIVE HoursFor(_, _, _, _)
HoursFor(rows, k, h, d) ==
    IF k < 2 THEN Num(0)
    ELSE IF CountsFor(rows[k], h, d)
    THEN JsAdd(HoursFor(rows, k - 1, h, d), rows[k].hours)
    ELSE HoursFor(rows, k - 1, h, d)

\* C2: after the aggregation pass every BookingGrid cell [i][d] is the sum of
\* the hours of exactly the rows with non-empty date, start time and hours
\* (a numeric start time 0 is non-empty) dated day d of the target month with
\* start hour timeRows[i].
C2_CellIsSumOfRows ==
    Aggregated =>
        \A i \in 1..Len(timeRows) :
            \A d \in 1..availabilityData.daysInMonth :
                dataGrid[i][d] = HoursFor(doc.e2.rows, Len(doc.e2.rows), timeRows[i], d)

\* the row is dated in another month or year than the one asked for
OtherMonth(row) ==
    row.date.t = "date" /\ (DateMonth(row.date) # monthNum \/ DateYear(row.date) # year)

\* the booking loop is at a row
AtRow == pc = "bookings" /\ rowIdx <= Len(doc.e2.rows)

\* C3: the step of the booking loop on a row dated in another month or year
\* leaves every BookingGrid cell as it was, wherever the row stands.
C3_OtherMonthRowKeepsGrid ==
    [][(AtRow /\ OtherMonth(doc.e2.rows[rowIdx])) => dataGrid' = dataGrid]_vars

\* C3 witness: after a row that was added, a populated row of another month
\* with a start hour of the table was processed
C3_Witness ==
    /\ pc = "bookings"
    /\ rowIdx = 4
    /\ processedCount = 1
    /\ dataGrid # ZeroGrid(timeRows, availabilityData.daysInMonth)
    /\ OtherMonth(doc.e2.rows[3])
    /\ RowPopulated(doc.e2.rows[3])
    /\ IndexOf(timeRows, StartHour(doc.e2.rows[3].start)) > 0

\* C4: from the creation of the BookingGrid on, it and the AvailabilityGrid
\* both have Len(timeRows) rows and daysInMonth columns.
C4_SameDimensions ==
    (pc = "bookings" \/ Aggregated) =>
        /\ Len(dataGrid) = Len(timeRows)
        /\ Len(availabilityData.availableGrid) = Len(timeRows)
        /\ availabilityData.timeRows = timeRows
        /\ \A i \in 1..Len(timeRows) :
            /\ DOMAIN dataGrid[i] = 1..DaysInMonth(monthNum, year)
            /\ DOMAIN availabilityData.availableGrid[i] = 1..DaysInMonth(monthNum, year)

\* C4 witness: the grids of a month of 28 days and a table that is not the
\* default one
C4_Witness ==
    /\ pc = "bookings"
    /\ DaysInMonth(monthNum, year) = 28
    /\ Len(dataGrid) = 24
    /\ Len(dataGrid[1]) = 28

\* a cell of D5:K7 that is empty or text without a digit
Unparseable(v) == v.t = "str" /\ \A k \in 1..Len(v.s) : ~IsDigit(v.s[k])

\* the ClubInfo tab has no populated row in A9:B25 and only empty or
\* unparseable cells in E6:K7
EmptyConfiguration(sheet) ==
    /\ \A i \in 1..Len(sheet.rowsA) :
        sheet.rowsA[i].day = Empty \/ sheet.rowsA[i].hours = Empty
    /\ \A i \in 1..7 : Unparseable(sheet.open[i]) /\ Unparseable(sheet.close[i])

\* C5: an empty or unparseable configuration gives the default schedule, all
\* seven weekdays open 8 to 23, and the time rows 8..23.
C5_DefaultSchedule ==
    (Calculated /\ EmptyConfiguration(doc.clubInfo.sheet)) =>
        /\ \A d \in 1..7 :
            \E e \in 1..Len(availabilityData.dayOpeningHours) :
                availabilityData.dayOpeningHours[e] =
                    [key |-> DayNames[d], open |-> 8, close |-> 23]
        /\ availabilityData.timeRows = [i \in 1..16 |-> i + 7]

\* close times that mean midnight
Midnight == {<<"2", "4", ":", "0", "0">>, <<"0", "0", ":", "0", "0">>}

\* row i of A9:B25 is the last row of its day, has an hour as its open time
\* and a midnight close time
MidnightRowA(rowsA, i) ==
    LET parts == Split(ToStr(rowsA[i].hours), "-")
    IN  /\ rowsA[i].day # Empty
        /\ \A j \in (i + 1)..Len(rowsA) : rowsA[j].day # rowsA[i].day
        /\ Len(parts) = 2
        /\ Trim(parts[2]) \in Midnight
        /\ Len(Trim(parts[1])) > 0
        /\ IsDigit(Trim(parts[1])[1])

\* C6: a close time "24:00" or "00:00" is stored as close = 24, in the list
\* A9:B25 and in the grid D5:K7.
C6_MidnightCloseIs24 ==
    (pc = "defaults" \/ Calculated) =>
        LET sheet == doc.clubInfo.sheet
        IN  IF HasTraditionalFormat(OpeningHoursData(sheet))
            THEN \A i \in 1..Len(sheet.rowsA) :
                    MidnightRowA(sheet.rowsA, i) =>
                        \E e \in 1..Len(parsedHours.doh) :
                            /\ parsedHours.doh[e].key = ToStr(sheet.rowsA[i].day)
                            /\ parsedHours.doh[e].close = 24
            ELSE \A d \in 1..7 :
                    (sheet.close[d].t = "str" /\ sheet.close[d].s \in Midnight) =>
                        \E e \in 1..Len(parsedHours.doh) :
                            /\ parsedHours.doh[e].key = DayNames[d]
                            /\ parsedHours.doh[e].close = 24

\* C6 witness: the grid D5:K7 with close time "00:00" on Saturday was parsed
C6_Witness ==
    /\ pc = "defaults"
    /\ ~HasTraditionalFormat(OpeningHoursData(doc.clubInfo.sheet))
    /\ doc.clubInfo.sheet.close[7] = Str(<<"0", "0", ":", "0", "0">>)
    /\ GetEntry(parsedHours.doh, DayNames[7]).close = 24

\* C7: the status written to E3 is OK when the two totals differ by less
\* than 0.01 and Please Check when they differ by more than 0.01.
C7_ReconciliationStatus ==
    destSheet.e3 # "" =>
        /\ (eTotal - e2Total < Tolerance /\ e2Total - eTotal < Tolerance)
              => destSheet.e3 = "OK"
        /\ (eTotal - e2Total > Tolerance \/ e2Total - eTotal > Tolerance)
              => destSheet.e3 = "Please Check"

\* C7 witness: the e total is 0.0101 below the e_2 total and the status says so
C7_Witness ==
    /\ pc = "initGrid"
    /\ e2Total - eTotal = 101
    /\ destSheet.e3 = "Please Check"

\* C8: once the two totals are to be compared, the run goes on to write the
\* table and to the success alert, whatever the totals are.
C8_ReconciliationIsAdvisory ==
    (pc = "totals") ~>
        (/\ pc = "returned"
         /\ alert = "Success"
         /\ destSheet.state = "new"
         /\ destSheet.e3 \in {"OK", "Please Check"}
         /\ Len(destSheet.dataRows) = Len(timeRows)
         /\ Len(destSheet.capacityData) = Len(timeRows))

\* C8 witness: a run without an e tab and with booked hours ended in success
\* with the status Please Check
C8_Witness ==
    /\ pc = "returned"
    /\ alert = "Success"
    /\ ~doc.e.present
    /\ eTotal = 0
    /\ e2Total > Tolerance
    /\ destSheet.e3 = "Please Check"
    /\ Len(destSheet.dataRows) = Len(timeRows)

\* the grid of rows 2..k without the rows whose hours are no number
RECURSIVE GridOfNumericRows(_, _)
GridOfNumericRows(rows, k) ==
    IF k < 2 THEN ZeroGrid(timeRows, availabilityData.daysInMonth)
    ELSE IF rows[k].hours.t = "num"
    THEN AddBooking(GridOfNumericRows(rows, k - 1), timeRows, availabilityData.daysInMonth,
                    rows[k], monthNum, year)
    ELSE GridOfNumericRows(rows, k - 1)

\* C9: a row of the target month with hours that are no number adds nothing:
\* the grid is the grid of the other rows, and the cells, the row totals,
\* the day totals and the grand total are numbers.
C9_TextHoursSkipped ==
    Aggregated =>
        /\ dataGrid = GridOfNumericRows(doc.e2.rows, Len(doc.e2.rows))
        /\ \A i \in 1..Len(timeRows) :
            /\ destSheet.rowTotals[i].t = "num"
            /\ \A d \in 1..availabilityData.daysInMonth : dataGrid[i][d].t = "num"
        /\ \A d \in 1..availabilityData.daysInMonth : ColTotal(dataGrid, d).t = "num"
        /\ destSheet.grandTotal.t = "num"

\* the row is populated, dated in the target month, and starts at an hour
\* that is no time row
OutOfRange(row) ==
    /\ RowPopulated(row)
    /\ row.date.t = "date"
    /\ DateMonth(row.date) = monthNum
    /\ DateYear(row.date) = year
    /\ \A k \in 1..Len(timeRows) : timeRows[k] # StartHour(row.start)

\* C10: the step of the booking loop on a row of the target month whose start
\* hour is no time row leaves the grid as it was and goes on to the next row.
C10_OutOfRangeRowDropped ==
    [][(AtRow /\ OutOfRange(doc.e2.rows[rowIdx])) =>
          (dataGrid' = dataGrid /\ rowIdx' = rowIdx + 1 /\ pc' = "bookings")]_vars

\* C10 witness: after a row that was added, a row of the target month at
\* 11 PM was processed for a table that ends at 4 PM
C10_Witness ==
    /\ pc = "bookings"
    /\ rowIdx = 4
    /\ processedCount = 1
    /\ dataGrid # ZeroGrid(timeRows, availabilityData.daysInMonth)
    /\ OutOfRange(doc.e2.rows[3])
    /\ StartHour(doc.e2.rows[3].start) = 23
    /\ timeRows[Len(timeRows)] = 16

\* C11: parseHourFromTime returns an integer hour in 0..23 for every Date
\* cell, every fraction of a day in [0, 1) and every string in AM/PM form,
\* HH:MM form or integer form.
C11_HourInRange ==
    pc \in {"parsed", "recovered"} => hourResult \in 0..23

\* C12: for every hour h in 0..23 parseHourFromTime(formatTimeAMPM(h)) = h;
\* the label "12AM" parses to 0 and the label "12PM" to 12.
C12_RoundTrip ==
    pc = "recovered" =>
        /\ hourResult = hourArg
        /\ timeArg = Str(<<"1", "2", "A", "M">>) => hourResult = 0
        /\ timeArg = Str(<<"1", "2", "P", "M">>) => hourResult = 12

\* C12 witness: noon, midnight and 11 PM went through format and parse
C12_Witness ==
    /\ pc = "recovered"
    /\ hourArg = 23
    /\ timeArg = Str(<<"1", "1", "P", "M">>)
    /\ hourResult = 23

\* the report was written up to its utilization columns
Reported == pc = "summary" \/ (pc = "returned" /\ alert = "Success")

\* cells[lo].n + ... + cells[hi].n of one grid row
RECURSIVE SumOfDays(_, _, _)
SumOfDays(cells, lo, hi) ==
    IF lo > hi THEN 0
    ELSE IF lo = hi THEN cells[lo].n
    ELSE LET mid == (lo + hi) \div 2
         IN  SumOfDays(cells, lo, mid) + SumOfDays(cells, mid + 1, hi)

\* C13: for every report row the available total is the sum over the days of
\* the AvailabilityGrid row, the booked total the sum over the days of the
\* BookingGrid row, and the utilization is booked / available when the
\* available total is above 0 and blank when it is 0.
C13_RowTotalsAndUtilization ==
    Reported =>
        \A r \in 1..Len(timeRows) :
            LET days == DaysInMonth(monthNum, year)
                available == SumOfDays(availabilityData.availableGrid[r], 1, days)
                booked == SumOfDays(dataGrid[r], 1, days)
            IN  /\ destSheet.capacityData[r] = Num(available)
                /\ destSheet.rowTotals[r] = Num(booked)
                /\ destSheet.utilizationData[r] =
                      IF available > 0
                      THEN [t |-> "ratio", num |-> booked, den |-> available]
                      ELSE [t |-> "blank", num |-> 0, den |-> 0]

\* C13 witness: a report with a booked row that has capacity, and a row that
\* has none
C13_Witness ==
    /\ Reported
    /\ \E r \in 1..Len(timeRows) :
        /\ destSheet.utilizationData[r].t = "ratio"
        /\ destSheet.utilizationData[r].num = Scale
        /\ destSheet.utilizationData[r].den = 8 * Scale
    /\ \E r \in 1..Len(timeRows) :
        /\ destSheet.capacityData[r] = Num(0)
        /\ destSheet.utilizationData[r].t = "blank"

\* the cells of the report were classified
Classified == pc \in {"utilization", "summary"} \/ (pc = "returned" /\ alert = "Success")

\* C14: a report cell is classified at capacity exactly when its availability
\* is above 0 and its booked value equals its availability; an over-booked
\* cell is not at capacity; a cell with availability 0 is classified closed
\* and never at capacity.
C14_AtCapacity ==
    Classified =>
        \A r \in 1..Len(timeRows) :
            \A d \in 1..availabilityData.daysInMonth :
                LET available == availabilityData.availableGrid[r][d]
                    booked == dataGrid[r][d]
                IN  /\ <<r, d>> \in destSheet.maxCapacityCells
                        <=> (available.n > 0 /\ booked = available)
                    /\ (booked.t = "num" /\ booked.n > available.n)
                        => <<r, d>> \notin destSheet.maxCapacityCells
                    /\ available = Num(0)
                        => /\ <<r, d>> \in destSheet.closedCells
                           /\ <<r, d>> \notin destSheet.maxCapacityCells

\* C14 witness: one cell booked exactly to its capacity of 2 is at capacity,
\* and a booked cell of a closed hour is closed and not at capacity
C14_Witness ==
    /\ Classified
    /\ \E x \in destSheet.maxCapacityCells :
        /\ dataGrid[x[1]][x[2]] = Num(2 * Scale)
        /\ availabilityData.availableGrid[x[1]][x[2]] = Num(2 * Scale)
    /\ \E x \in destSheet.closedCells :
        /\ dataGrid[x[1]][x[2]] = Num(Scale)
        /\ x \notin destSheet.maxCapacityCells

\* C15: every call uses the facility configuration of the document as it is
\* when the call starts: the capacity of the availability data, of the
\* availability cells and of the report header is the capacity cell of the
\* document, and the club name is the one of the document.
C15_ConfigurationIsFresh ==
    Calculated =>
        LET sheet == doc.clubInfo.sheet
        IN  /\ availabilityData.maxHoursPerHour = sheet.capacity
            /\ CLUB_INFO_CACHE.clubName = sheet.clubName
            /\ \A r \in 1..Len(availabilityData.timeRows) :
                \A d \in 1..availabilityData.daysInMonth :
                    availabilityData.availableGrid[r][d] \in {Num(0), sheet.capacity}
            /\ (destSheet.state = "new" /\ destSheet.e3 # "")
                  => destSheet.maxHours = sheet.capacity

\* the call before this one got its availability data for the same month from
\* a ClubInfo tab that has not changed since
SameConfiguration ==
    /\ run > 1
    /\ previous.calculated
    /\ previous.clubInfo = doc.clubInfo
    /\ previous.monthDigits = monthDigits

\* C18: a second call of calculateAvailableHours for the same month and year
\* on an unchanged configuration returns the result of the first: the same
\* time rows, days in month and availability grid.
C18_SecondCallSameResult ==
    (Calculated /\ SameConfiguration) =>
        /\ availabilityData.timeRows = previous.availabilityData.timeRows
        /\ availabilityData.daysInMonth = previous.availabilityData.daysInMonth
        /\ availabilityData.availableGrid = previous.availabilityData.availableGrid
        /\ availabilityData = previous.availabilityData

\* C18 witness: the second call returned a grid with open cells, the one of
\* the first call
C18_Witness ==
    /\ Calculated
    /\ SameConfiguration
    /\ run = 2
    /\ availabilityData.availableGrid = previous.availabilityData.availableGrid
    /\ \E r \in 1..Len(availabilityData.availableGrid) :
        availabilityData.availableGrid[r][3] = Num(2 * Scale)

\* the ClubInfo tab or the [MMYY]e_2 tab of the month asked for is missing
RequiredInputAbsent ==
    /\ response.button = "OK"
    /\ IsFourDigits(response.text)
    /\ ~doc.clubInfo.present \/ ~doc.e2.present \/ doc.month # response.text

\* C16: when the ClubInfo tab or the [MMYY]e_2 tab is missing, the run ends
\* with a thrown error or an error alert and without a report: no report tab
\* is created, and a report tab that exists is neither deleted nor changed.
C16_MissingInputNoReport ==
    RequiredInputAbsent =>
        /\ destSheet \in {ReportTab("absent"), ReportTab("old")}
        /\ pc \in {"prompt", "getClubInfo", "calculate", "defaults", "findSource",
                   "threw", "returned"}
        /\ pc = "threw" => alert = "ClubInfo tab not found"
        /\ pc = "returned" => alert = "Error"
        /\ pc \in {"calculate", "defaults", "findSource"} => doc.clubInfo.present

\* C16 witness: the run for a month without e_2 tab ended with the error
\* alert and the report tab of an earlier run is still there
C16_Witness ==
    /\ pc = "returned"
    /\ alert = "Error"
    /\ doc.clubInfo.present
    /\ ~doc.e2.present
    /\ destSheet = ReportTab("old")

\* C17: for February 2025, the list Monday to Friday 09:00-17:00 and capacity
\* 2: 28 days, time rows 9..16, availability 2 in every Monday-to-Friday
\* column and 0 in every Saturday and Sunday column (1 February 2025 is a
\* Saturday), and 320 available hours in all.
C17_FebruaryWeekdays ==
    (Calculated /\ doc.clubInfo.sheet = WeekdaySheet /\ monthDigits = Feb25) =>
        /\ availabilityData.daysInMonth = 28
        /\ availabilityData.timeRows = <<9, 10, 11, 12, 13, 14, 15, 16>>
        /\ timeRows = <<9, 10, 11, 12, 13, 14, 15, 16>>
        /\ availabilityData.availableGrid =
              [r \in 1..8 |-> [d \in 1..28 |-> IF d % 7 \in {1, 2} THEN Num(0)
                                                ELSE Num(2 * Scale)]]
        /\ Reported => SumOfDays(destSheet.capacityData, 1, 8) = 320 * Scale
        /\ (pc = "returned" /\ alert = "Success")
              => destSheet.summary.overall.den = 320 * Scale

\* C17 witness: the report of that run was written, with 40 available hours
\* in each of its 8 rows
C17_Witness ==
    /\ pc = "returned"
    /\ alert = "Success"
    /\ doc.clubInfo.sheet = WeekdaySheet
    /\ monthDigits = Feb25
    /\ destSheet.capacityData = [r \in 1..8 |-> Num(40 * Scale)]
    /\ availabilityData.availableGrid[1][3] = Num(2 * Scale)
    /\ availabilityData.availableGrid[1][1] = Num(0)

\* C19: every entry of the weekly schedule the resolver returns has
\* open < close, in either layout and whatever the configuration holds.
C19_OpenBeforeClose ==
    Calculated =>
        \A e \in 1..Len(availabilityData.dayOpeningHours) :
            availabilityData.dayOpeningHours[e].open < availabilityData.dayOpeningHours[e].close

\* a row of A9:B25 with both its day label and its hours string
BothPresent(row) == row.day # Empty /\ row.hours # Empty

\* the list A9:B25 has a row with both cells
LayoutASelected(sheet) == \E i \in 1..Len(sheet.rowsA) : BothPresent(sheet.rowsA[i])

\* the entry is the default one of a weekday
DefaultEntry(entry) ==
    entry.open = 8 /\ entry.close = 23 /\ \E d \in 1..7 : entry.key = DayNames[d]

\* C20: the list A9:B25 is parsed exactly when one of its rows has both the
\* day label and the hours string, and the grid D5:K7 otherwise.  With the
\* list selected every schedule entry comes from a list row or is a default,
\* so that no grid cell has a part in it, also when no list row parses.
C20_LayoutSelection ==
    (pc = "defaults" \/ Calculated) =>
        LET sheet == doc.clubInfo.sheet
            doh == parsedHours.doh
        IN  IF LayoutASelected(sheet)
            THEN /\ \A e \in 1..Len(doh) :
                        \E i \in 1..Len(sheet.rowsA) :
                            /\ BothPresent(sheet.rowsA[i])
                            /\ doh[e].key = sheet.rowsA[i].day.s
                            /\ doh[e].open =
                                  ParseInt(Split(Split(sheet.rowsA[i].hours.s, "-")[1], ":")[1])
                 /\ parsedHours =
                        ParseOpeningHours([sheet EXCEPT !.open = [d \in 1..7 |-> Empty],
                                                        !.close = [d \in 1..7 |-> Empty]])
                 /\ Calculated =>
                        \A e \in 1..Len(availabilityData.dayOpeningHours) :
                            \/ availabilityData.dayOpeningHours[e] \in
                                  {doh[k] : k \in 1..Len(doh)}
                            \/ DefaultEntry(availabilityData.dayOpeningHours[e])
            ELSE /\ Len(doh) = 7
                 /\ \A d \in 1..7 :
                        /\ doh[d].key = DayNames[d]
                        /\ doh[d].open = parseHourFromTime(sheet.open[d])

\* C20 witness: the list was selected by a row that does not parse, the grid
\* holds 6 to 20 for Sunday, and the schedule is the default one
C20_Witness ==
    /\ pc = "findSource"
    /\ LayoutASelected(doc.clubInfo.sheet)
    /\ parsedHours.doh = <<>>
    /\ doc.clubInfo.sheet.open[1] = DateVal(1899, 12, 30, 6)
    /\ Len(availabilityData.dayOpeningHours) = 7
    /\ availabilityData.dayOpeningHours[1] = [key |-> DayNames[1], open |-> 8, close |-> 23]

\* the default-schedule fallback fires on the parsed hours
FallbackFires ==
    parsedHours.earliestHour = 24 \/ parsedHours.latestHour = 0 \/ parsedHours.doh = <<>>

\* earliestHour and latestHour after the fallback
EarliestAfterFallback == IF FallbackFires THEN 8 ELSE parsedHours.earliestHour

LatestAfterFallback == IF FallbackFires THEN 23 ELSE parsedHours.latestHour

\* lastHourRow: 23 when latestHour = 24 and latestHour - 1 otherwise
LastHourRowOf(latest) == IF latest = 24 THEN 23 ELSE latest - 1

\* C21: the time rows are a non-empty run of consecutive hours: they are
\* earliestHour..lastHourRow, and 8..23 whenever earliestHour > lastHourRow.
C21_TimeSlotRange ==
    Calculated =>
        LET rows == availabilityData.timeRows
            first == EarliestAfterFallback
            last == LastHourRowOf(LatestAfterFallback)
        IN  /\ Len(rows) > 0
            /\ \A i \in 1..(Len(rows) - 1) : rows[i + 1] = rows[i] + 1
            /\ first <= last => (rows[1] = first /\ rows[Len(rows)] = last)
            /\ first > last => (rows[1] = 8 /\ rows[Len(rows)] = 23)

\* C21 witness: the list Tuesday 17:00-09:00 gives earliestHour 17 above
\* lastHourRow 8, and the time rows 8..23
C21_Witness ==
    /\ pc = "findSource"
    /\ parsedHours.earliestHour = 17
    /\ parsedHours.latestHour = 9
    /\ availabilityData.timeRows = [i \in 1..16 |-> i + 7]

\* C22: when the default-schedule fallback fires, the schedule returned holds
\* the seven weekday names, each open 8 and close 23, and nothing else: no
\* parsed entry remains under any label; earliestHour is 8, latestHour 23.
C22_FallbackDiscardsParsed ==
    (Calculated /\ FallbackFires) =>
        LET schedule == availabilityData.dayOpeningHours
        IN  /\ Len(schedule) = 7
            /\ \A d \in 1..7 :
                \E e \in 1..Len(schedule) :
                    schedule[e] = [key |-> DayNames[d], open |-> 8, close |-> 23]
            /\ \A e \in 1..Len(schedule) : \E d \in 1..7 : schedule[e].key = DayNames[d]
            /\ availabilityData.earliestHour = 8
            /\ availabilityData.latestHour = 23

\* smallest open hour and largest close hour over the entries of a schedule
MinOpen(schedule) ==
    CHOOSE h \in {schedule[e].open : e \in 1..Len(schedule)} :
        \A e \in 1..Len(schedule) : h <= schedule[e].open
MaxClose(schedule) ==
    CHOOSE h \in {schedule[e].close : e \in 1..Len(schedule)} :
        \A e \in 1..Len(schedule) : h >= schedule[e].close

\* the 8..23 reset of the time rows (earliestHour above lastHourRow)
RangeResetFires == EarliestAfterFallback > LastHourRowOf(LatestAfterFallback)

\* C23: when neither the default schedule nor the 8..23 reset is used, the
\* time rows start at the smallest open hour of the returned schedule and end
\* at its largest close hour minus 1, also when a day label occurs twice.
C23_MinimalSpan ==
    (Calculated /\ ~FallbackFires /\ ~RangeResetFires) =>
        LET schedule == availabilityData.dayOpeningHours
            rows == availabilityData.timeRows
        IN  /\ rows[1] = MinOpen(schedule)
            /\ rows[Len(rows)] = MaxClose(schedule) - 1

\* the prompt was cancelled, or the text entered is not four decimal digits
NoMonthEntered == response.button # "OK" \/ ~IsFourDigits(response.text)

\* C24: on a cancelled prompt or a text that is not 4 digits,
\* createHoursDaysTable and monthHours return at once and leave the document,
\* the report tab and the configuration cache as they were.
C24_NoMonthNoChange ==
    [][(pc \in {"prompt", "monthPrompt"} /\ NoMonthEntered) =>
          /\ pc' \in {"returned", "monthReturned"}
          /\ UNCHANGED <<doc, destSheet, CLUB_INFO_CACHE>>]_vars

C24_Witness ==
    /\ pc = "monthReturned"
    /\ alert = "Invalid Input"
    /\ response.text = <<"0", "2", "a", "5">>
    /\ destSheet = ReportTab("old")
    /\ CLUB_INFO_CACHE = NoCache

\* both tabs of the k-th pair exist under the month entered
BothTabs(k) ==
    HasTab(PairTabs(k).primary, response.text) /\ HasTab(PairTabs(k).secondary, response.text)

\* the column H totals of the k-th pair are the same number
SameTotals(k) ==
    SumColumnH(PairTabs(k).primary.colH) = SumColumnH(PairTabs(k).secondary.colH)

\* monthHours has shown its results
MonthShown == pc = "monthReturned" /\ alert = "Month Hours Results"

\* C26: monthHours gives one result per pair, in the order e, i, na; a pair
\* with a missing tab gives a "not found" result and the pairs after it are
\* still compared; with returnData set, allValid is TRUE exactly when every
\* pair has both tabs and equal column H totals.
C26_OneResultPerPair ==
    MonthShown =>
        /\ Len(results) = 3
        /\ \A k \in 1..3 :
            /\ results[k].name = <<"e", "i", "na">>[k]
            /\ ~HasTab(PairTabs(k).primary, response.text)
                   => results[k].text = "Primary tab not found"
            /\ (HasTab(PairTabs(k).primary, response.text)
                   /\ ~HasTab(PairTabs(k).secondary, response.text))
                   => results[k].text = "Secondary tab not found"
            /\ BothTabs(k) => results[k].text = (IF SameTotals(k) THEN "EQUAL" ELSE "NOT EQUAL")
        /\ returnData => (validationData.allValid <=> \A k \in 1..3 : BothTabs(k) /\ SameTotals(k))

C26_Witness ==
    /\ MonthShown
    /\ returnData
    /\ ~doc.i.present
    /\ results[2].text = "Primary tab not found"
    /\ results[3].text = "EQUAL"
    /\ ~validationData.allValid

\* C28: for the same e and e_2 tabs, monthHours reports EQUAL exactly when
\* the report's reconciliation status is OK.
C28_SameVerdict ==
    (MonthShown /\ destSheet.state = "new" /\ destSheet.e3 # "" /\ BothTabs(1)) =>
        (results[1].text = "EQUAL" <=> destSheet.e3 = "OK")

\* C25: when a spreadsheet operation throws during createHoursDaysTable, the
\* report tab is what it was before the run: an earlier report is still
\* there, and no partly written report tab is left.
C25_AbortsWholesale ==
    pc = "threw" => destSheet \in {ReportTab("absent"), ReportTab("old")}

\* C27: for each weekday the report's opening-hours table shows an interval
\* for, the availability cells of every date on that weekday are computed
\* from the schedule entry the table shows, whatever the case or the
\* surrounding spaces of the label it was listed under.
C27_TableAgreesWithGrid ==
    Reported =>
        \A w \in 1..7 :
            destSheet.openingHoursOpen[w] # NotFound =>
                LET schedule == availabilityData.dayOpeningHours
                    shown == schedule[FoundKey(schedule, DayNames[w])]
                IN  \A i \in 1..Len(availabilityData.timeRows) :
                        \A d \in 1..availabilityData.daysInMonth :
                            WeekdayOf(d) = DayNames[w] =>
                                availabilityData.availableGrid[i][d] =
                                    IF /\ shown.open <= availabilityData.timeRows[i]
                                       /\ availabilityData.timeRows[i] < shown.close
                                    THEN CLUB_INFO_CACHE.maxHoursPerHour
                                    ELSE Num(0)

\* the row has a day and hours
Populated(row) == Truthy(row.day) /\ Truthy(row.hours)

\* the populated rows among the first i rows
PopulatedUpTo(rows, i) == {j \in 1..i : Populated(rows[j])}

\* C29: for each populated row of A9:B25 (its label used by no other
\* populated row), checkClubInfo marks the row OK exactly when
\* calculateAvailableHours stored an entry for it, and the open and close
\* hours it writes are those of the entry.
C29_DiagnosticAgrees ==
    (pc = "checked" /\ doc.clubInfo.present /\ availabilityData # NoAvailability) =>
        LET rows == doc.clubInfo.sheet.rowsA
        IN  \A i \in 1..Len(rows) :
                (/\ Populated(rows[i])
                 /\ \A j \in PopulatedUpTo(rows, Len(rows)) : j # i => rows[j].day # rows[i].day) =>
                    LET line == checkSheet[Cardinality(PopulatedUpTo(rows, i))]
                        label == ToStr(rows[i].day)
                    IN  /\ line.status = "OK" <=> HasKey(parsedHours.doh, label)
                        /\ HasKey(parsedHours.doh, label) =>
                              line.hours = <<GetEntry(parsedHours.doh, label).open,
                                             GetEntry(parsedHours.doh, label).close>>

\* C30: the optimized and the baseline variant classify the same cells as
\* at maximum capacity (the grids, the totals, the reconciliation statuses
\* and the closed cells come from the same statements in both variants).
C30_VariantsAgree ==
    Classified => destSheet.maxCapacityCells = BaselineMaxCapacityCells
====
